---------------------------- MODULE Spec2Model ----------------------------
(***************************************************************************)
(* A model of lightgl.js: the matrix stack that main.js adds to the WebGL  *)
(* context (both generations of the library kept in src/src/main.js: the   *)
(* window.onload singleton of lines 31-257 and GL.create() of lines        *)
(* 259-704), the Matrix functions of matrix.js, Vector, the HitTest and    *)
(* Raytracer functions of the raytracer source, gl.project and             *)
(* gl.unProject, and the keyboard listeners that maintain GL.keys.         *)
(*                                                                         *)
(* Numbers.  A JavaScript number is modelled exactly: an integer by a TLA+ *)
(* integer where the code only adds and multiplies (Matrix.multiply, the   *)
(* cofactors of Matrix.inverse), and by an extended rational [n, d]        *)
(* wherever the code divides (d = 0 stands for +Infinity, -Infinity and    *)
(* NaN).  Rounding of IEEE doubles and the sign of zero are not modelled.  *)
(***************************************************************************)
EXTENDS Integers, Sequences, FiniteSets, TLC

VARIABLES
    \* ---- the matrix stack of one context (main.js) ----
    api,              \* which generation built the context: "onload" | "create"
    hasFloat32Array,  \* the environment flag read by gl.popMatrix (main.js:367)
    heap,             \* the JavaScript arrays alive: reference -> array
    gl,               \* gl.modelviewMatrix.m and gl.projectionMatrix.m (references)
    stacks,           \* modelviewStack and projectionStack (sequences of references)
    matrix,           \* the closure variable `matrix`: the name of the active register
    stack,            \* the closure variable `stack`: the name of the active stack
    call,             \* the most recent call and how it ended
    ops,              \* number of calls made so far
    lastMode,         \* history: argument of the most recent matrixMode that returned
    saved,            \* history: per register, the 16 entries read at each pending push
    trail,            \* history: per register, the calls since the last loadIdentity
    \* ---- two Matrix objects and one call of a Matrix function (matrix.js) ----
    mThis,            \* `this.m` of the receiver (modelview for gl.unProject)
    mArg,             \* `matrix.m` of the argument (projection for gl.unProject)
    pfn,              \* the function called: "none" before the call
    pin,              \* history: the two arrays before the call, and the other arguments
    pout,             \* what the call returned
    \* ---- one HitTest object and the results merged into it (raytracer) ----
    recv,             \* the receiver: its fields t, hit and normal
    made,             \* history: the expression that constructed the receiver
    recv0,            \* history: the receiver as constructed
    hcall,            \* the most recent mergeWith: receiver before, other before and after
    seen,             \* history: the results handed to mergeWith so far
    \* ---- one call of a function of the raytracer or of Vector ----
    fcall,            \* the function called and its arguments: f is "none" before the call
    fret,             \* what the call returned
    \* ---- the camera: the viewport of the context and one Raytracer object ----
    glViewport,       \* gl.getParameter(gl.VIEWPORT): [x, y, width, height]
    tracer,           \* the Raytracer constructed: eye, ray00, ray10, ray01, ray11, viewport
    \* ---- the keyboard (main.js:576-614) ----
    keys,             \* GL.keys: property name -> TRUE | FALSE (no entry: undefined)
    held,             \* the keys physically down (the state behind the events)
    everDown,         \* history: the keys that went down at least once
    \* ---- the mouse listeners of one context (main.js:470-564) ----
    mouse,            \* buttons, where the listeners are registered, the last callback
    \* ---- several contexts and the callbacks they registered (main.js:616-697) ----
    ctx,              \* the global `gl`, each context's closure, the pending callbacks
    \* ---- textures and the shared framebuffer (texture source) ----
    tex,              \* the WebGL bindings, the viewport, the drawTo calls in progress
    \* ---- one Mesh and its buffers (mesh.js) ----
    mesh,             \* the options given, the buffers created, what compile uploaded
    \* ---- one Indexer (mesh.js:4-26) ----
    indexer,          \* unique, map, and the indices handed out
    \* ---- the frame loop of window.onload (main.js:122-150) ----
    frame             \* gl.autoDraw, the timer, and the calls made so far

stackVars == <<api, hasFloat32Array, heap, gl, stacks, matrix, stack, call, ops,
               lastMode, saved, trail>>

matrixVars == <<mThis, mArg, pfn, pin, pout>>

hitVars == <<recv, made, recv0, hcall, seen>>

pureVars == <<fcall, fret>>

cameraVars == <<glViewport, tracer>>

keyVars == <<keys, held, everDown>>

extVars == <<mouse, ctx, tex, mesh, indexer, frame>>

vars == <<stackVars, matrixVars, hitVars, pureVars, cameraVars, keyVars, extVars>>

-----------------------------------------------------------------------------
(* Bounds of the model. *)

\* the number of API calls in one run of the matrix stack
MaxOps == 5

-----------------------------------------------------------------------------
(* Arrays of 16 numbers, indexed 0..15 as in the code. *)

ArrayOf(t) == [i \in 0..15 |-> t[i + 1]]

\* A zero-length array: what `new Float32Array(undefined)` yields.
EmptyArray == [i \in {} |-> 0]

\* new Matrix(): `this.m` of a matrix constructed with no arguments
Matrix ==
    ArrayOf(<< 1, 0, 0, 0,
               0, 1, 0, 0,
               0, 0, 1, 0,
               0, 0, 0, 1 >>)

\* the product with the operands exchanged: matrix.m times this.m
Matrix_multiply_swapped(a, b) ==
    ArrayOf(<<
        b[0] * a[0] + b[1] * a[4] + b[2] * a[8] + b[3] * a[12],
        b[0] * a[1] + b[1] * a[5] + b[2] * a[9] + b[3] * a[13],
        b[0] * a[2] + b[1] * a[6] + b[2] * a[10] + b[3] * a[14],
        b[0] * a[3] + b[1] * a[7] + b[2] * a[11] + b[3] * a[15],

        b[4] * a[0] + b[5] * a[4] + b[6] * a[8] + b[7] * a[12],
        b[4] * a[1] + b[5] * a[5] + b[6] * a[9] + b[7] * a[13],
        b[4] * a[2] + b[5] * a[6] + b[6] * a[10] + b[7] * a[14],
        b[4] * a[3] + b[5] * a[7] + b[6] * a[11] + b[7] * a[15],

        b[8] * a[0] + b[9] * a[4] + b[10] * a[8] + b[11] * a[12],
        b[8] * a[1] + b[9] * a[5] + b[10] * a[9] + b[11] * a[13],
        b[8] * a[2] + b[9] * a[6] + b[10] * a[10] + b[11] * a[14],
        b[8] * a[3] + b[9] * a[7] + b[10] * a[11] + b[11] * a[15],

        b[12] * a[0] + b[13] * a[4] + b[14] * a[8] + b[15] * a[12],
        b[12] * a[1] + b[13] * a[5] + b[14] * a[9] + b[15] * a[13],
        b[12] * a[2] + b[13] * a[6] + b[14] * a[10] + b[15] * a[14],
        b[12] * a[3] + b[13] * a[7] + b[14] * a[11] + b[15] * a[15] >>)

\* the entry-by-entry product
Matrix_multiply_elementwise(a, b) == [i \in 0..15 |-> a[i] * b[i]]

\* Matrix.prototype.multiply: a is this.m, b is matrix.m
Matrix_multiply(a, b) ==
    ArrayOf(<<
        a[0] * b[0] + a[1] * b[4] + a[2] * b[8] + a[3] * b[12],
        a[0] * b[1] + a[1] * b[5] + a[2] * b[9] + a[3] * b[13],
        a[0] * b[2] + a[1] * b[6] + a[2] * b[10] + a[3] * b[14],
        a[0] * b[3] + a[1] * b[7] + a[2] * b[11] + a[3] * b[15],

        a[4] * b[0] + a[5] * b[4] + a[6] * b[8] + a[7] * b[12],
        a[4] * b[1] + a[5] * b[5] + a[6] * b[9] + a[7] * b[13],
        a[4] * b[2] + a[5] * b[6] + a[6] * b[10] + a[7] * b[14],
        a[4] * b[3] + a[5] * b[7] + a[6] * b[11] + a[7] * b[15],

        a[8] * b[0] + a[9] * b[4] + a[10] * b[8] + a[11] * b[12],
        a[8] * b[1] + a[9] * b[5] + a[10] * b[9] + a[11] * b[13],
        a[8] * b[2] + a[9] * b[6] + a[10] * b[10] + a[11] * b[14],
        a[8] * b[3] + a[9] * b[7] + a[10] * b[11] + a[11] * b[15],

        a[12] * b[0] + a[13] * b[4] + a[14] * b[8] + a[15] * b[12],
        a[12] * b[1] + a[13] * b[5] + a[14] * b[9] + a[15] * b[13],
        a[12] * b[2] + a[13] * b[6] + a[14] * b[10] + a[15] * b[14],
        a[12] * b[3] + a[13] * b[7] + a[14] * b[11] + a[15] * b[15] >>)

\* Matrix.scale(x, y, z)
Matrix_scale(x, y, z) ==
    ArrayOf(<< x, 0, 0, 0,
               0, y, 0, 0,
               0, 0, z, 0,
               0, 0, 0, 1 >>)

\* Matrix.translate(x, y, z)
Matrix_translate(x, y, z) ==
    ArrayOf(<< 1, 0, 0, x,
               0, 1, 0, y,
               0, 0, 1, z,
               0, 0, 0, 1 >>)

-----------------------------------------------------------------------------
(* JavaScript numbers where the code divides: extended rationals.          *)
(* [n, d] with d > 0 is n/d in lowest terms; [1, 0] is +Infinity, [-1, 0]  *)
(* is -Infinity and [0, 0] is NaN.  The operations follow IEEE 754 on      *)
(* these values (without rounding and without a negative zero).            *)

Abs(i) == IF i < 0 THEN -i ELSE i

Sign(i) == IF i < 0 THEN -1 ELSE IF i > 0 THEN 1 ELSE 0

RECURSIVE GCD(_, _)
GCD(a, b) == IF b = 0 THEN a ELSE GCD(b, a % b)

Q(n, d) ==
    IF d = 0 THEN [n |-> Sign(n), d |-> 0]
    ELSE LET g == GCD(Abs(n), Abs(d))
         IN  [n |-> Sign(d) * (n \div g), d |-> Abs(d) \div g]

QInt(i) == [n |-> i, d |-> 1]

NaN == [n |-> 0, d |-> 0]

Infinity == [n |-> 1, d |-> 0]

IsNaN(a) == a.n = 0 /\ a.d = 0

\* a + b
QAdd(a, b) ==
    IF a.d = 0 /\ b.d = 0 THEN (IF a.n = b.n THEN a ELSE NaN)
    ELSE LET g == GCD(a.d, b.d)
         IN  Q(a.n * (b.d \div g) + b.n * (a.d \div g), (a.d \div g) * b.d)

\* -a
QNeg(a) == [n |-> -a.n, d |-> a.d]

\* a - b
QSub(a, b) == QAdd(a, QNeg(b))

\* a * b
QMul(a, b) == Q(a.n * b.n, a.d * b.d)

\* a / b
QDiv(a, b) == LET s == IF b.n < 0 THEN -1 ELSE 1 IN Q(s * a.n * b.d, s * b.n * a.d)

\* an/ad < bn/bd for ad, bd > 0, by whole parts and then the remainders
\* (no product of a numerator and a denominator is formed)
RECURSIVE FracLess(_, _, _, _)
FracLess(an, ad, bn, bd) ==
    LET qa == an \div ad
        qb == bn \div bd
        ra == an % ad
        rb == bn % bd
    IN  IF qa # qb THEN qa < qb
        ELSE IF rb = 0 THEN FALSE
        ELSE IF ra = 0 THEN TRUE
        ELSE FracLess(bd, rb, ad, ra)

\* a < b, false when either is NaN
QLess(a, b) ==
    IF IsNaN(a) \/ IsNaN(b) THEN FALSE
    ELSE IF a.d = 0 /\ b.d = 0 THEN a.n < b.n
    ELSE IF a.d = 0 THEN a.n < 0
    ELSE IF b.d = 0 THEN b.n > 0
    ELSE FracLess(a.n, a.d, b.n, b.d)

\* a > b
QGreater(a, b) == QLess(b, a)

\* a <= b and a >= b, false when either is NaN
QLessEq(a, b) == ~IsNaN(a) /\ ~IsNaN(b) /\ ~QLess(b, a)

QGreaterEq(a, b) == QLessEq(b, a)

\* Math.min(a, b) and Math.max(a, b): NaN when either is NaN
QMin(a, b) == IF IsNaN(a) \/ IsNaN(b) THEN NaN ELSE IF QLess(b, a) THEN b ELSE a

QMax(a, b) == IF IsNaN(a) \/ IsNaN(b) THEN NaN ELSE IF QLess(a, b) THEN b ELSE a

\* a boolean used as a number, as in (p > q) - (p < r)
QBool(b) == [n |-> IF b THEN 1 ELSE 0, d |-> 1]

\* ToBoolean of a number: false for 0 and NaN
Truthy(a) == a.n # 0

\* a || b on numbers
QOr(a, b) == IF Truthy(a) THEN a ELSE b

\* Math.sqrt on the values whose root is rational
RECURSIVE ISqrtBetween(_, _, _)
ISqrtBetween(i, lo, hi) ==
    IF lo >= hi THEN lo
    ELSE LET mid == (lo + hi + 1) \div 2
         IN  IF mid * mid <= i THEN ISqrtBetween(i, mid, hi) ELSE ISqrtBetween(i, lo, mid - 1)

\* the integer root (rounded down; exact on the squares)
ISqrt(i) == ISqrtBetween(i, 0, IF i < 46340 THEN i ELSE 46340)

IsSquare(i) == ISqrt(i) * ISqrt(i) = i

HasExactSqrt(a) == a.d = 0 \/ a.n < 0 \/ (IsSquare(a.n) /\ IsSquare(a.d))

Sqrt(a) ==
    IF a.d = 0 THEN (IF a.n = 1 THEN Infinity ELSE NaN)
    ELSE IF a.n < 0 THEN NaN
    ELSE Q(ISqrt(a.n), ISqrt(a.d))

\* Math.cos and Math.sin of a * Math.PI / 180 at the whole multiples of 90
\* degrees (where the values are 0, 1 and -1), and at NaN and the infinities
HasExactTrig(a) == a.d = 0 \/ (a.d = 1 /\ a.n % 90 = 0)

CosDeg(a) ==
    IF a.d = 0 THEN NaN
    ELSE QInt(<<1, 0, -1, 0>>[((a.n \div 90) % 4) + 1])

SinDeg(a) ==
    IF a.d = 0 THEN NaN
    ELSE QInt(<<0, 1, 0, -1>>[((a.n \div 90) % 4) + 1])

\* an array of integers read as an array of numbers
QArray(m) == [i \in DOMAIN m |-> QInt(m[i])]

-----------------------------------------------------------------------------
(* Vector and the Matrix functions that divide (matrix.js).                *)

\* Vector = function(x, y, z) { this.x = x || 0; ... }
Vector(x, y, z) == [x |-> QOr(x, QInt(0)), y |-> QOr(y, QInt(0)), z |-> QOr(z, QInt(0))]

\* v instanceof Vector (a number is a record of n and d)
IsVector(v) == DOMAIN v = {"x", "y", "z"}

\* Vector.prototype.add: v is a Vector or a number
Vector_add(this, v) ==
    LET b == IsVector(v)
    IN  Vector(QAdd(this.x, IF b THEN v.x ELSE v), QAdd(this.y, IF b THEN v.y ELSE v),
               QAdd(this.z, IF b THEN v.z ELSE v))

\* Vector.prototype.subtract
Vector_subtract(this, v) ==
    LET b == IsVector(v)
    IN  Vector(QSub(this.x, IF b THEN v.x ELSE v), QSub(this.y, IF b THEN v.y ELSE v),
               QSub(this.z, IF b THEN v.z ELSE v))

\* Vector.prototype.multiply
Vector_multiply(this, v) ==
    LET b == IsVector(v)
    IN  Vector(QMul(this.x, IF b THEN v.x ELSE v), QMul(this.y, IF b THEN v.y ELSE v),
               QMul(this.z, IF b THEN v.z ELSE v))

\* Vector.prototype.divide
Vector_divide(this, v) ==
    LET b == IsVector(v)
    IN  Vector(QDiv(this.x, IF b THEN v.x ELSE v), QDiv(this.y, IF b THEN v.y ELSE v),
               QDiv(this.z, IF b THEN v.z ELSE v))

\* Vector.prototype.dot
Vector_dot(this, v) ==
    QAdd(QAdd(QMul(this.x, v.x), QMul(this.y, v.y)), QMul(this.z, v.z))

\* Vector.prototype.cross
Vector_cross(this, v) ==
    Vector(QSub(QMul(this.y, v.z), QMul(this.z, v.y)),
           QSub(QMul(this.z, v.x), QMul(this.x, v.z)),
           QSub(QMul(this.x, v.y), QMul(this.y, v.x)))

\* Vector.prototype.length
Vector_length(this) == Sqrt(Vector_dot(this, this))

\* Vector.prototype.unit
Vector_unit(this) == Vector_divide(this, Vector_length(this))

\* Vector.prototype.min and Vector.prototype.max: the least and the greatest component
Vector_prototype_min(this) == QMin(QMin(this.x, this.y), this.z)

Vector_prototype_max(this) == QMax(QMax(this.x, this.y), this.z)

\* Vector.min(a, b) and Vector.max(a, b)
Vector_min(a, b) == Vector(QMin(a.x, b.x), QMin(a.y, b.y), QMin(a.z, b.z))

Vector_max(a, b) == Vector(QMax(a.x, b.x), QMax(a.y, b.y), QMax(a.z, b.z))

\* Vector.lerp(a, b, percent)
Vector_lerp(a, b, percent) ==
    Vector(QAdd(a.x, QMul(QSub(b.x, a.x), percent)),
           QAdd(a.y, QMul(QSub(b.y, a.y), percent)),
           QAdd(a.z, QMul(QSub(b.z, a.z), percent)))

\* the 16 cofactor sums `inv` is constructed from (matrix.js:15-35)
Matrix_inverse_inv(m) ==
    ArrayOf(<<
        m[5]*m[10]*m[15] - m[5]*m[14]*m[11] - m[6]*m[9]*m[15] + m[6]*m[13]*m[11] + m[7]*m[9]*m[14] - m[7]*m[13]*m[10],
        -m[1]*m[10]*m[15] + m[1]*m[14]*m[11] + m[2]*m[9]*m[15] - m[2]*m[13]*m[11] - m[3]*m[9]*m[14] + m[3]*m[13]*m[10],
        m[1]*m[6]*m[15] - m[1]*m[14]*m[7] - m[2]*m[5]*m[15] + m[2]*m[13]*m[7] + m[3]*m[5]*m[14] - m[3]*m[13]*m[6],
        -m[1]*m[6]*m[11] + m[1]*m[10]*m[7] + m[2]*m[5]*m[11] - m[2]*m[9]*m[7] - m[3]*m[5]*m[10] + m[3]*m[9]*m[6],

        -m[4]*m[10]*m[15] + m[4]*m[14]*m[11] + m[6]*m[8]*m[15] - m[6]*m[12]*m[11] - m[7]*m[8]*m[14] + m[7]*m[12]*m[10],
        m[0]*m[10]*m[15] - m[0]*m[14]*m[11] - m[2]*m[8]*m[15] + m[2]*m[12]*m[11] + m[3]*m[8]*m[14] - m[3]*m[12]*m[10],
        -m[0]*m[6]*m[15] + m[0]*m[14]*m[7] + m[2]*m[4]*m[15] - m[2]*m[12]*m[7] - m[3]*m[4]*m[14] + m[3]*m[12]*m[6],
        m[0]*m[6]*m[11] - m[0]*m[10]*m[7] - m[2]*m[4]*m[11] + m[2]*m[8]*m[7] + m[3]*m[4]*m[10] - m[3]*m[8]*m[6],

        m[4]*m[9]*m[15] - m[4]*m[13]*m[11] - m[5]*m[8]*m[15] + m[5]*m[12]*m[11] + m[7]*m[8]*m[13] - m[7]*m[12]*m[9],
        -m[0]*m[9]*m[15] + m[0]*m[13]*m[11] + m[1]*m[8]*m[15] - m[1]*m[12]*m[11] - m[3]*m[8]*m[13] + m[3]*m[12]*m[9],
        m[0]*m[5]*m[15] - m[0]*m[13]*m[7] - m[1]*m[4]*m[15] + m[1]*m[12]*m[7] + m[3]*m[4]*m[13] - m[3]*m[12]*m[5],
        -m[0]*m[5]*m[11] + m[0]*m[9]*m[7] + m[1]*m[4]*m[11] - m[1]*m[8]*m[7] - m[3]*m[4]*m[9] + m[3]*m[8]*m[5],

        -m[4]*m[9]*m[14] + m[4]*m[13]*m[10] + m[5]*m[8]*m[14] - m[5]*m[12]*m[10] - m[6]*m[8]*m[13] + m[6]*m[12]*m[9],
        m[0]*m[9]*m[14] - m[0]*m[13]*m[10] - m[1]*m[8]*m[14] + m[1]*m[12]*m[10] + m[2]*m[8]*m[13] - m[2]*m[12]*m[9],
        -m[0]*m[5]*m[14] + m[0]*m[13]*m[6] + m[1]*m[4]*m[14] - m[1]*m[12]*m[6] - m[2]*m[4]*m[13] + m[2]*m[12]*m[5],
        m[0]*m[5]*m[10] - m[0]*m[9]*m[6] - m[1]*m[4]*m[10] + m[1]*m[8]*m[6] + m[2]*m[4]*m[9] - m[2]*m[8]*m[5] >>)

\* var det = m[0]*inv.m[0] + m[1]*inv.m[4] + m[2]*inv.m[8] + m[3]*inv.m[12];
Matrix_inverse_det(m) ==
    LET inv == Matrix_inverse_inv(m)
    IN  m[0]*inv[0] + m[1]*inv[4] + m[2]*inv[8] + m[3]*inv[12]

\* inverse() without the division by det
Matrix_inverse_noDivide(m) ==
    IF Matrix_inverse_det(m) = 0 THEN QArray(Matrix) ELSE QArray(Matrix_inverse_inv(m))

\* inverse() without the test of det
Matrix_inverse_noGuard(m) ==
    [i \in 0..15 |-> QDiv(QInt(Matrix_inverse_inv(m)[i]), QInt(Matrix_inverse_det(m)))]

\* Matrix.prototype.inverse: m is this.m; the value is the `m` of the matrix returned
Matrix_inverse(m) ==
    LET inv == Matrix_inverse_inv(m)
        det == Matrix_inverse_det(m)
    IN  IF det = 0 THEN QArray(Matrix)
        ELSE [i \in 0..15 |-> QDiv(QInt(inv[i]), QInt(det))]

\* Matrix.prototype.transformPoint: m is this.m (an array of numbers), v a Vector
Matrix_transformPoint(m, v) ==
    Vector_divide(
        Vector(QAdd(QAdd(QAdd(QMul(m[0], v.x), QMul(m[1], v.y)), QMul(m[2], v.z)), m[3]),
               QAdd(QAdd(QAdd(QMul(m[4], v.x), QMul(m[5], v.y)), QMul(m[6], v.z)), m[7]),
               QAdd(QAdd(QAdd(QMul(m[8], v.x), QMul(m[9], v.y)), QMul(m[10], v.z)), m[11])),
        QAdd(QAdd(QAdd(QMul(m[12], v.x), QMul(m[13], v.y)), QMul(m[14], v.z)), m[15]))

\* the branch of Matrix.rotate taken when `a && (x || y || z)` (matrix.js:129-137)
Matrix_rotate_about(a, x, y, z) ==
    LET d  == Sqrt(QAdd(QAdd(QMul(x, x), QMul(y, y)), QMul(z, z)))
        x1 == QDiv(x, d)
        y1 == QDiv(y, d)
        z1 == QDiv(z, d)
        c  == CosDeg(a)
        s  == SinDeg(a)
        t  == QSub(QInt(1), c)
    IN  [m |-> ArrayOf(<<
             QAdd(QMul(QMul(x1, x1), t), c), QSub(QMul(QMul(x1, y1), t), QMul(z1, s)), QAdd(QMul(QMul(x1, z1), t), QMul(y1, s)), QInt(0),
             QAdd(QMul(QMul(y1, x1), t), QMul(z1, s)), QAdd(QMul(QMul(y1, y1), t), c), QSub(QMul(QMul(y1, z1), t), QMul(x1, s)), QInt(0),
             QSub(QMul(QMul(z1, x1), t), QMul(y1, s)), QAdd(QMul(QMul(z1, y1), t), QMul(x1, s)), QAdd(QMul(QMul(z1, z1), t), c), QInt(0),
             QInt(0), QInt(0), QInt(0), QInt(1) >>),
         divisors |-> {d}]

\* Matrix.rotate without the guard
Matrix_rotate_noGuard(a, x, y, z) == Matrix_rotate_about(a, x, y, z)

\* Matrix.rotate(a, x, y, z): the `m` of the matrix returned, and the divisors
\* the call divided x, y and z by
Matrix_rotate(a, x, y, z) ==
    IF Truthy(a) /\ (Truthy(x) \/ Truthy(y) \/ Truthy(z))
    THEN Matrix_rotate_about(a, x, y, z)
    ELSE [m |-> QArray(Matrix), divisors |-> {}]

\* Matrix.lookAt(ex, ey, ez, cx, cy, cz, ux, uy, uz): the `m` of the matrix returned
Matrix_lookAt(ex, ey, ez, cx, cy, cz, ux, uy, uz) ==
    LET e == Vector(ex, ey, ez)
        c == Vector(cx, cy, cz)
        u == Vector(ux, uy, uz)
        f == Vector_unit(Vector_subtract(e, c))
        s == Vector_unit(Vector_cross(u, f))
        t == Vector_unit(Vector_cross(f, s))
    IN  ArrayOf(<< s.x, s.y, s.z, QNeg(Vector_dot(s, e)),
                   t.x, t.y, t.z, QNeg(Vector_dot(t, e)),
                   f.x, f.y, f.z, QNeg(Vector_dot(f, e)),
                   QInt(0), QInt(0), QInt(0), QInt(1) >>)

\* gl.unProject(winX, winY, winZ, modelview, projection, viewport): modelview and
\* projection are the `m` of the two matrices, viewport is [x, y, width, height]
gl_unProject(winX, winY, winZ, modelview, projection, viewport) ==
    LET point == Vector(
            QSub(QMul(QDiv(QSub(winX, viewport[0]), viewport[2]), QInt(2)), QInt(1)),
            QSub(QMul(QDiv(QSub(winY, viewport[1]), viewport[3]), QInt(2)), QInt(1)),
            QSub(QMul(winZ, QInt(2)), QInt(1)))
    IN  Matrix_transformPoint(Matrix_inverse(Matrix_multiply(projection, modelview)), point)

\* a project that applies the projection before the modelview
gl_project_projectionFirst(objX, objY, objZ, modelview, projection, viewport) ==
    LET point == Matrix_transformPoint(QArray(modelview),
                     Matrix_transformPoint(QArray(projection), Vector(objX, objY, objZ)))
        half  == Q(1, 2)
    IN  Vector(QAdd(viewport[0], QMul(viewport[2], QAdd(QMul(point.x, half), half))),
               QAdd(viewport[1], QMul(viewport[3], QAdd(QMul(point.y, half), half))),
               QAdd(QMul(point.z, half), half))

\* gl.project(objX, objY, objZ, modelview, projection, viewport)
gl_project(objX, objY, objZ, modelview, projection, viewport) ==
    LET point == Matrix_transformPoint(QArray(projection),
                     Matrix_transformPoint(QArray(modelview), Vector(objX, objY, objZ)))
        half  == Q(1, 2)
    IN  Vector(QAdd(viewport[0], QMul(viewport[2], QAdd(QMul(point.x, half), half))),
               QAdd(viewport[1], QMul(viewport[3], QAdd(QMul(point.y, half), half))),
               QAdd(QMul(point.z, half), half))

-----------------------------------------------------------------------------
(* HitTest and Raytracer.hitTestSphere (the raytracer source).             *)

\* Number.MAX_VALUE: a finite number above every other finite number of the model
MAX_VALUE == 1000000

Number_MAX_VALUE == QInt(MAX_VALUE)

\* the value `undefined` of a field that was never given
NoValue == [undefined |-> TRUE]

\* the value `null` the hit tests return for no intersection
Null == [null |-> TRUE]

\* new HitTest(): arguments.length is 0
HitTest_noArguments == [t |-> Number_MAX_VALUE, hit |-> NoValue, normal |-> NoValue]

\* new HitTest(t, hit, normal)
HitTest(t, hit, normal) == [t |-> t, hit |-> hit, normal |-> normal]

\* mergeWith with `other.t <= this.t`: a tie replaces the receiver
HitTest_mergeWith_orEqual(this, other) ==
    IF QGreater(other.t, QInt(0)) /\ ~QGreater(other.t, this.t) /\ ~IsNaN(this.t)
    THEN [this |-> [t |-> other.t, hit |-> other.hit, normal |-> other.normal], other |-> other]
    ELSE [this |-> this, other |-> other]

\* HitTest.prototype.mergeWith: what the call leaves in `this` and in `other`
HitTest_mergeWith(this, other) ==
    IF QGreater(other.t, QInt(0)) /\ QLess(other.t, this.t)
    THEN [this |-> [t |-> other.t, hit |-> other.hit, normal |-> other.normal], other |-> other]
    ELSE [this |-> this, other |-> other]

\* var discriminant = b * b - 4 * a * c  (part_008:108-112)
Raytracer_hitTestSphere_discriminant(origin, ray, center, radius) ==
    LET offset == Vector_subtract(origin, center)
        a == Vector_dot(ray, ray)
        b == QMul(QInt(2), Vector_dot(ray, offset))
        c == QSub(Vector_dot(offset, offset), QMul(radius, radius))
    IN  QSub(QMul(b, b), QMul(QMul(QInt(4), a), c))

\* hitTestSphere with the other root of the quadratic: where the ray leaves the sphere
Raytracer_hitTestSphere_farRoot(origin, ray, center, radius) ==
    LET offset == Vector_subtract(origin, center)
        a == Vector_dot(ray, ray)
        b == QMul(QInt(2), Vector_dot(ray, offset))
        discriminant == Raytracer_hitTestSphere_discriminant(origin, ray, center, radius)
    IN  IF QGreater(discriminant, QInt(0))
        THEN LET t == QDiv(QAdd(QNeg(b), Sqrt(discriminant)), QMul(QInt(2), a))
                 hit == Vector_add(origin, Vector_multiply(ray, t))
             IN  HitTest(t, hit, Vector_divide(Vector_subtract(hit, center), radius))
        ELSE Null

\* Raytracer.hitTestSphere(origin, ray, center, radius)
Raytracer_hitTestSphere(origin, ray, center, radius) ==
    LET offset == Vector_subtract(origin, center)
        a == Vector_dot(ray, ray)
        b == QMul(QInt(2), Vector_dot(ray, offset))
        discriminant == Raytracer_hitTestSphere_discriminant(origin, ray, center, radius)
    IN  IF QGreater(discriminant, QInt(0))
        THEN LET t == QDiv(QSub(QNeg(b), Sqrt(discriminant)), QMul(QInt(2), a))
                 hit == Vector_add(origin, Vector_multiply(ray, t))
             IN  HitTest(t, hit, Vector_divide(Vector_subtract(hit, center), radius))
        ELSE Null

\* var epsilon = 1.0e-6  (part_008:89)
EpsilonDenominator == 1000000

epsilon == Q(1, EpsilonDenominator)

\* var tNear = t1.max() and var tFar = t2.min()  (part_008:81-86)
Raytracer_hitTestBox_tNear(origin, ray, min, max) ==
    LET tMin == Vector_divide(Vector_subtract(min, origin), ray)
        tMax == Vector_divide(Vector_subtract(max, origin), ray)
    IN  Vector_prototype_max(Vector_min(tMin, tMax))

Raytracer_hitTestBox_tFar(origin, ray, min, max) ==
    LET tMin == Vector_divide(Vector_subtract(min, origin), ray)
        tMax == Vector_divide(Vector_subtract(max, origin), ray)
    IN  Vector_prototype_min(Vector_max(tMin, tMax))

\* hitTestBox that takes tMin for the near and tMax for the far crossing of
\* every axis, whatever the sign of the ray's component
Raytracer_hitTestBox_noSwap(origin, ray, min, max) ==
    LET tMin  == Vector_divide(Vector_subtract(min, origin), ray)
        tMax  == Vector_divide(Vector_subtract(max, origin), ray)
        tNear == Vector_prototype_max(tMin)
        tFar  == Vector_prototype_min(tMax)
    IN  IF QGreater(tNear, QInt(0)) /\ QLess(tNear, tFar)
        THEN LET hit  == Vector_add(origin, Vector_multiply(ray, tNear))
                 min1 == Vector_add(min, epsilon)
                 max1 == Vector_subtract(max, epsilon)
             IN  HitTest(tNear, hit,
                         Vector(QSub(QBool(QGreater(hit.x, max1.x)), QBool(QLess(hit.x, min1.x))),
                                QSub(QBool(QGreater(hit.y, max1.y)), QBool(QLess(hit.y, min1.y))),
                                QSub(QBool(QGreater(hit.z, max1.z)), QBool(QLess(hit.z, min1.z)))))
        ELSE Null

\* Raytracer.hitTestBox(origin, ray, min, max)
Raytracer_hitTestBox(origin, ray, min, max) ==
    LET tNear == Raytracer_hitTestBox_tNear(origin, ray, min, max)
        tFar  == Raytracer_hitTestBox_tFar(origin, ray, min, max)
    IN  IF QGreater(tNear, QInt(0)) /\ QLess(tNear, tFar)
        THEN LET hit  == Vector_add(origin, Vector_multiply(ray, tNear))
                 min1 == Vector_add(min, epsilon)
                 max1 == Vector_subtract(max, epsilon)
             IN  HitTest(tNear, hit,
                         Vector(QSub(QBool(QGreater(hit.x, max1.x)), QBool(QLess(hit.x, min1.x))),
                                QSub(QBool(QGreater(hit.y, max1.y)), QBool(QLess(hit.y, min1.y))),
                                QSub(QBool(QGreater(hit.z, max1.z)), QBool(QLess(hit.z, min1.z)))))
        ELSE Null

\* hitTestTriangle that rejects the points on the edges and corners
Raytracer_hitTestTriangle_edgesExcluded(origin, ray, a, b, c) ==
    LET ab == Vector_subtract(b, a)
        ac == Vector_subtract(c, a)
        normal == Vector_unit(Vector_cross(ab, ac))
        t == QDiv(Vector_dot(normal, Vector_subtract(a, origin)), Vector_dot(normal, ray))
    IN  IF QGreater(t, QInt(0))
        THEN LET hit == Vector_add(origin, Vector_multiply(ray, t))
                 toHit == Vector_subtract(hit, a)
                 dot00 == Vector_dot(ac, ac)
                 dot01 == Vector_dot(ac, ab)
                 dot02 == Vector_dot(ac, toHit)
                 dot11 == Vector_dot(ab, ab)
                 dot12 == Vector_dot(ab, toHit)
                 divide == QSub(QMul(dot00, dot11), QMul(dot01, dot01))
                 u == QDiv(QSub(QMul(dot11, dot02), QMul(dot01, dot12)), divide)
                 v == QDiv(QSub(QMul(dot00, dot12), QMul(dot01, dot02)), divide)
             IN  IF /\ QGreater(u, QInt(0)) /\ QGreater(v, QInt(0))
                    /\ QLess(QAdd(u, v), QInt(1))
                 THEN HitTest(t, hit, normal)
                 ELSE Null
        ELSE Null

\* Raytracer.hitTestTriangle(origin, ray, a, b, c)
Raytracer_hitTestTriangle(origin, ray, a, b, c) ==
    LET ab == Vector_subtract(b, a)
        ac == Vector_subtract(c, a)
        normal == Vector_unit(Vector_cross(ab, ac))
        t == QDiv(Vector_dot(normal, Vector_subtract(a, origin)), Vector_dot(normal, ray))
    IN  IF QGreater(t, QInt(0))
        THEN LET hit == Vector_add(origin, Vector_multiply(ray, t))
                 toHit == Vector_subtract(hit, a)
                 dot00 == Vector_dot(ac, ac)
                 dot01 == Vector_dot(ac, ab)
                 dot02 == Vector_dot(ac, toHit)
                 dot11 == Vector_dot(ab, ab)
                 dot12 == Vector_dot(ab, toHit)
                 divide == QSub(QMul(dot00, dot11), QMul(dot01, dot01))
                 u == QDiv(QSub(QMul(dot11, dot02), QMul(dot01, dot12)), divide)
                 v == QDiv(QSub(QMul(dot00, dot12), QMul(dot01, dot02)), divide)
             IN  IF /\ QGreaterEq(u, QInt(0)) /\ QGreaterEq(v, QInt(0))
                    /\ QLessEq(QAdd(u, v), QInt(1))
                 THEN HitTest(t, hit, normal)
                 ELSE Null
        ELSE Null

\* a Raytracer that takes the columns of the modelview for the axes
Raytracer_columnAxes(v, m, projection) ==
    LET axisX  == Vector(QInt(m[0]), QInt(m[1]), QInt(m[2]))
        axisY  == Vector(QInt(m[4]), QInt(m[5]), QInt(m[6]))
        axisZ  == Vector(QInt(m[8]), QInt(m[9]), QInt(m[10]))
        offset == Vector(QInt(m[3]), QInt(m[7]), QInt(m[11]))
        eye    == Vector(QNeg(Vector_dot(offset, axisX)), QNeg(Vector_dot(offset, axisY)),
                         QNeg(Vector_dot(offset, axisZ)))
        minX   == v[0]
        maxX   == QAdd(minX, v[2])
        minY   == v[1]
        maxY   == QAdd(minY, v[3])
    IN  [eye   |-> eye,
         ray00 |-> Vector_subtract(gl_unProject(minX, minY, QInt(1), m, projection, v), eye),
         ray10 |-> Vector_subtract(gl_unProject(maxX, minY, QInt(1), m, projection, v), eye),
         ray01 |-> Vector_subtract(gl_unProject(minX, maxY, QInt(1), m, projection, v), eye),
         ray11 |-> Vector_subtract(gl_unProject(maxX, maxY, QInt(1), m, projection, v), eye),
         viewport |-> v]

\* new Raytracer(): v is gl.getParameter(gl.VIEWPORT), m is gl.modelviewMatrix.m and
\* projection is gl.projectionMatrix.m, which gl.unProject reads by default
Raytracer(v, m, projection) ==
    LET axisX  == Vector(QInt(m[0]), QInt(m[4]), QInt(m[8]))
        axisY  == Vector(QInt(m[1]), QInt(m[5]), QInt(m[9]))
        axisZ  == Vector(QInt(m[2]), QInt(m[6]), QInt(m[10]))
        offset == Vector(QInt(m[3]), QInt(m[7]), QInt(m[11]))
        eye    == Vector(QNeg(Vector_dot(offset, axisX)), QNeg(Vector_dot(offset, axisY)),
                         QNeg(Vector_dot(offset, axisZ)))
        minX   == v[0]
        maxX   == QAdd(minX, v[2])
        minY   == v[1]
        maxY   == QAdd(minY, v[3])
    IN  [eye   |-> eye,
         ray00 |-> Vector_subtract(gl_unProject(minX, minY, QInt(1), m, projection, v), eye),
         ray10 |-> Vector_subtract(gl_unProject(maxX, minY, QInt(1), m, projection, v), eye),
         ray01 |-> Vector_subtract(gl_unProject(minX, maxY, QInt(1), m, projection, v), eye),
         ray11 |-> Vector_subtract(gl_unProject(maxX, maxY, QInt(1), m, projection, v), eye),
         viewport |-> v]

\* the ray of getRayForPixel before the final unit()
Raytracer_getRayForPixel_lerp(this, x, y) ==
    LET x1   == QDiv(QSub(x, this.viewport[0]), this.viewport[2])
        y1   == QSub(QInt(1), QDiv(QSub(y, this.viewport[1]), this.viewport[3]))
        ray0 == Vector_lerp(this.ray00, this.ray10, x1)
        ray1 == Vector_lerp(this.ray01, this.ray11, x1)
    IN  Vector_lerp(ray0, ray1, y1)

\* a getRayForPixel that does not flip y
Raytracer_getRayForPixel_noFlip(this, x, y) ==
    LET x1   == QDiv(QSub(x, this.viewport[0]), this.viewport[2])
        y1   == QDiv(QSub(y, this.viewport[1]), this.viewport[3])
        ray0 == Vector_lerp(this.ray00, this.ray10, x1)
        ray1 == Vector_lerp(this.ray01, this.ray11, x1)
    IN  Vector_unit(Vector_lerp(ray0, ray1, y1))

\* Raytracer.prototype.getRayForPixel(x, y)
Raytracer_getRayForPixel(this, x, y) == Vector_unit(Raytracer_getRayForPixel_lerp(this, x, y))

-----------------------------------------------------------------------------
(* GL.keys and the two keyboard listeners (main.js:284-286, 576-614).      *)

\* a JavaScript string (null and undefined are Null and NoValue)
String(s) == [string |-> s]

\* String.fromCharCode(code) for the codes 65..90
String_fromCharCode(code) ==
    String(<<"A", "B", "C", "D", "E", "F", "G", "H", "I", "J", "K", "L", "M", "N", "O",
             "P", "Q", "R", "S", "T", "U", "V", "W", "X", "Y", "Z">>[code - 64])

\* var named = { 8: 'BACKSPACE', ... }
named ==
    8 :> "BACKSPACE" @@ 9 :> "TAB" @@ 13 :> "ENTER" @@ 16 :> "SHIFT" @@ 27 :> "ESCAPE"
      @@ 32 :> "SPACE" @@ 37 :> "LEFT" @@ 38 :> "UP" @@ 39 :> "RIGHT" @@ 40 :> "DOWN"

\* function mapKeyCode(code)
mapKeyCode(code) ==
    IF code \in DOMAIN named THEN String(named[code])
    ELSE IF code >= 65 /\ code <= 90 THEN String_fromCharCode(code)
    ELSE Null

\* obj[name] = value
Put(obj, name, value) ==
    [k \in DOMAIN obj \cup {name} |-> IF k = name THEN value ELSE obj[k]]

\* obj[name] === true (a name that was never put is undefined)
IsTrue(obj, name) == name \in DOMAIN obj /\ obj[name]

\* the keydown listener: GL.keys after the event e
keydown(e) ==
    IF ~e.altKey /\ ~e.ctrlKey /\ ~e.metaKey
    THEN LET key   == mapKeyCode(e.keyCode)
             keys1 == IF key # Null THEN Put(keys, key.string, TRUE) ELSE keys
         IN  Put(keys1, ToString(e.keyCode), TRUE)
    ELSE keys

\* the keyup listener: GL.keys after the event e
keyup(e) ==
    IF ~e.altKey /\ ~e.ctrlKey /\ ~e.metaKey
    THEN LET key   == mapKeyCode(e.keyCode)
             keys1 == IF key # Null THEN Put(keys, key.string, FALSE) ELSE keys
         IN  Put(keys1, ToString(e.keyCode), FALSE)
    ELSE keys

-----------------------------------------------------------------------------
(* The matrix stack: main.js, window.onload (31-122) and addMatrixStack     *)
(* (305-392).                                                              *)

\* var ENUM = 0x12340000
ENUM == 305397760

\* gl.MODELVIEW = ENUM | 1
MODELVIEW == ENUM + 1

\* gl.PROJECTION = ENUM | 2
PROJECTION == ENUM + 2

Registers == {"modelviewMatrix", "projectionMatrix"}

StackNames == {"modelviewStack", "projectionStack"}

\* the value `undefined` held where a reference to an array is expected
Undefined == 0

\* The closure state the handlers read and write.
Cur == [gl |-> gl, stacks |-> stacks, heap |-> heap, matrix |-> matrix, stack |-> stack]

\* How a call ends: it returns leaving state s, or it throws e before any write.
Returned(s) == [threw |-> "none", s |-> s]

Thrown(e) == [threw |-> e, s |-> Cur]

\* The reference of a newly created array: the smallest one not in use.
Fresh(h) ==
    CHOOSE i \in 1..(MaxOps + 3) :
        i \notin DOMAIN h /\ \A j \in 1..(i - 1) : j \in DOMAIN h

With(h, id, v) == [k \in DOMAIN h \cup {id} |-> IF k = id THEN v ELSE h[k]]

\* `to[i] = from[i]` for i in 0..15: an element-wise write into an existing
\* array; a write past the end of a (zero-length) typed array is ignored.
WriteAll(to, from) == [i \in DOMAIN to |-> from[i]]

\* a matrixMode that selects the matrix and leaves `stack` as it was
gl_matrixMode_matrixOnly(mode) ==
    CASE mode = MODELVIEW ->
           Returned([Cur EXCEPT !.matrix = "modelviewMatrix"])
      [] mode = PROJECTION ->
           Returned([Cur EXCEPT !.matrix = "projectionMatrix"])
      [] OTHER -> Thrown("invalid matrix mode")

\* a matrixMode that takes every other mode for PROJECTION and never throws
gl_matrixMode_fallThrough(mode) ==
    CASE mode = MODELVIEW ->
           Returned([Cur EXCEPT !.matrix = "modelviewMatrix", !.stack = "modelviewStack"])
      [] OTHER ->
           Returned([Cur EXCEPT !.matrix = "projectionMatrix", !.stack = "projectionStack"])

\* gl.matrixMode (the same text in both generations, main.js:50-63 and 315-328)
gl_matrixMode(mode) ==
    CASE mode = MODELVIEW ->
           Returned([Cur EXCEPT !.matrix = "modelviewMatrix", !.stack = "modelviewStack"])
      [] mode = PROJECTION ->
           Returned([Cur EXCEPT !.matrix = "projectionMatrix", !.stack = "projectionStack"])
      [] OTHER -> Thrown("invalid matrix mode")

\* gl.loadIdentity = function() { gl[matrix].m = new Matrix().m; }
onload_loadIdentity ==
    LET id == Fresh(heap)
    IN  Returned([Cur EXCEPT !.gl[matrix] = id, !.heap = With(heap, id, Matrix)])

\* gl.loadMatrix = function(m) { gl[matrix].m = m.m.slice(); }
onload_loadMatrix(m) ==
    LET id == Fresh(heap)
    IN  Returned([Cur EXCEPT !.gl[matrix] = id, !.heap = With(heap, id, m)])

\* gl.multMatrix = function(m) { gl[matrix].m = gl[matrix].multiply(m).m; }
\* Reading a[0] of an undefined `this.m` throws a TypeError.
onload_multMatrix(m) ==
    IF gl[matrix] = Undefined THEN Thrown("TypeError")
    ELSE LET id == Fresh(heap)
         IN  Returned([Cur EXCEPT !.gl[matrix] = id,
                                  !.heap = With(heap, id, Matrix_multiply(heap[gl[matrix]], m))])

\* gl.pushMatrix = function() { stack.push(gl[matrix].m.slice()); }
onload_pushMatrix ==
    IF gl[matrix] = Undefined THEN Thrown("TypeError")
    ELSE LET id == Fresh(heap)
         IN  Returned([Cur EXCEPT !.stacks[stack] = Append(stacks[stack], id),
                                  !.heap = With(heap, id, heap[gl[matrix]])])

\* gl.popMatrix = function() { gl[matrix].m = stack.pop(); }
\* pop() of an empty array returns undefined.
onload_popMatrix ==
    LET st == stacks[stack]
    IN  IF st = <<>> THEN Returned([Cur EXCEPT !.gl[matrix] = Undefined])
        ELSE Returned([Cur EXCEPT !.gl[matrix] = st[Len(st)],
                                  !.stacks[stack] = SubSeq(st, 1, Len(st) - 1)])

\* Matrix.identity(result): result.m becomes the identity
Matrix_identity == Matrix

\* Matrix.multiply(left, right, result): the product written into result.m
Matrix_multiply_into(left, right) == Matrix_multiply(left, right)

\* gl.loadIdentity = function() { Matrix.identity(gl[matrix]); }
create_loadIdentity ==
    LET id == Fresh(heap)
    IN  Returned([Cur EXCEPT !.gl[matrix] = id, !.heap = With(heap, id, Matrix_identity)])

\* gl.loadMatrix: var from = m.m, to = gl[matrix].m; to[i] = from[i]
create_loadMatrix(m) ==
    IF gl[matrix] = Undefined THEN Thrown("TypeError")
    ELSE Returned([Cur EXCEPT !.heap[gl[matrix]] = WriteAll(heap[gl[matrix]], m)])

\* gl.multMatrix = function(m) { gl.loadMatrix(Matrix.multiply(gl[matrix], m, resultMatrix)); }
\* resultMatrix is scratch: written here and read by loadMatrix at once.  With a
\* zero-length gl[matrix].m the product is never stored (loadMatrix writes nothing).
create_multMatrix(m) ==
    IF gl[matrix] = Undefined THEN Thrown("TypeError")
    ELSE IF heap[gl[matrix]] = EmptyArray THEN Returned(Cur)
    ELSE create_loadMatrix(Matrix_multiply_into(heap[gl[matrix]], m))

\* a pushMatrix that pushes gl[matrix].m itself, not a copy
create_pushMatrix_noCopy ==
    IF gl[matrix] = Undefined THEN Thrown("TypeError")
    ELSE Returned([Cur EXCEPT !.stacks[stack] = Append(stacks[stack], gl[matrix])])

\* gl.pushMatrix = function() { stack.push(Array.prototype.slice.call(gl[matrix].m)); }
create_pushMatrix ==
    IF gl[matrix] = Undefined THEN Thrown("TypeError")
    ELSE LET id == Fresh(heap)
         IN  Returned([Cur EXCEPT !.stacks[stack] = Append(stacks[stack], id),
                                  !.heap = With(heap, id, heap[gl[matrix]])])

\* gl.popMatrix: var m = stack.pop(); gl[matrix].m = hasFloat32Array ? new Float32Array(m) : m;
\* new Float32Array(undefined) is a typed array of length 0.
create_popMatrix ==
    LET st   == stacks[stack]
        rest == IF st = <<>> THEN st ELSE SubSeq(st, 1, Len(st) - 1)
        m    == IF st = <<>> THEN Undefined ELSE st[Len(st)]
        id   == Fresh(heap)
    IN  IF hasFloat32Array
        THEN Returned([Cur EXCEPT !.gl[matrix] = id, !.stacks[stack] = rest,
                                  !.heap = With(heap, id,
                                               IF m = Undefined THEN EmptyArray ELSE heap[m])])
        ELSE Returned([Cur EXCEPT !.gl[matrix] = m, !.stacks[stack] = rest])

-----------------------------------------------------------------------------
(* The calls a program makes on the context, with the history the claims    *)
(* are stated on.                                                          *)

\* the argument matrices handed to loadMatrix and multMatrix
MatA == ArrayOf(<< 1, 2, 0, 1,
                   0, 1, 3, 0,
                   2, 0, 1, 0,
                   0, 0, 0, 1 >>)

MatB == ArrayOf(<< 0, 1, 0, 2,
                   1, 0, 0, 0,
                   0, 0, 2, 3,
                   0, 1, 0, 1 >>)

Mats == {MatA, MatB}

\* the argument triples handed to gl.translate and gl.scale
TranslateArgs == {<<1, 2, 3>>}

ScaleArgs == {<<2, 3, 4>>}

\* the arguments handed to gl.matrixMode: the two modes and a value that is neither
ModeArgs == {MODELVIEW, PROJECTION, ENUM + 3}

\* the register and the stack a matrix mode names
RegisterOf(mode) == IF mode = MODELVIEW THEN "modelviewMatrix" ELSE "projectionMatrix"

StackOf(reg) == IF reg = "modelviewMatrix" THEN "modelviewStack" ELSE "projectionStack"

OtherRegister(reg) == IF reg = "modelviewMatrix" THEN "projectionMatrix" ELSE "modelviewMatrix"

\* what a reference holds: undefined, or an array with its elements
Val(h, ref) ==
    IF ref = Undefined THEN [tag |-> "undefined", elems |-> EmptyArray]
    ELSE [tag |-> "array", elems |-> h[ref]]

\* the arrays still referenced (the rest is garbage)
Live(s) ==
    ({s.gl[r] : r \in Registers}
        \cup UNION {{s.stacks[k][i] : i \in 1..Len(s.stacks[k])} : k \in StackNames})
    \ {Undefined}

NoEntry == [f |-> "none", m |-> EmptyArray, v |-> <<0, 0, 0>>]

\* One call: `out` is what the handler did; the history variables record it.
\* te says what the call means for the trail: "reset", "append", "keep", "forget".
Do(op, arg, te, entry, out) ==
    LET ok  == out.threw = "none"
        reg == RegisterOf(lastMode)
        top == IF saved[reg] = <<>> THEN [some |-> FALSE, elems |-> EmptyArray]
               ELSE [some |-> TRUE, elems |-> saved[reg][Len(saved[reg])]]
    IN  /\ ops < MaxOps
        /\ ops' = ops + 1
        /\ gl' = out.s.gl
        /\ stacks' = out.s.stacks
        /\ matrix' = out.s.matrix
        /\ stack' = out.s.stack
        /\ heap' = [id \in Live(out.s) |-> out.s.heap[id]]
        /\ call' = [op |-> op, arg |-> arg, threw |-> out.threw,
                    expect |-> IF op = "popMatrix" THEN top
                               ELSE [some |-> FALSE, elems |-> EmptyArray]]
        /\ lastMode' = IF op = "matrixMode" /\ ok THEN arg ELSE lastMode
        /\ saved' = IF ~ok THEN saved
                    ELSE IF op = "pushMatrix"
                         THEN [saved EXCEPT ![reg] = Append(@, heap[gl[reg]])]
                    ELSE IF op = "popMatrix" /\ top.some
                         THEN [saved EXCEPT ![reg] = SubSeq(@, 1, Len(@) - 1)]
                    ELSE saved
        /\ trail' = IF ~ok \/ te = "keep" THEN trail
                    ELSE IF te = "reset"
                         THEN [trail EXCEPT ![reg] = [valid |-> TRUE, since |-> "loadIdentity", calls |-> <<>>]]
                    ELSE IF te = "append"
                         THEN [trail EXCEPT ![reg].calls = IF trail[reg].valid THEN Append(@, entry) ELSE @]
                    ELSE [trail EXCEPT ![reg] = [valid |-> FALSE, since |-> "none", calls |-> <<>>]]
        /\ UNCHANGED <<api, hasFloat32Array, matrixVars, hitVars, pureVars, cameraVars,
                       keyVars, extVars>>

matrixMode ==
    \E mode \in ModeArgs :
        Do("matrixMode", mode, "keep", NoEntry, gl_matrixMode(mode))

loadIdentity ==
    Do("loadIdentity", 0, "reset", NoEntry,
       IF api = "onload" THEN onload_loadIdentity ELSE create_loadIdentity)

loadMatrix ==
    \E m \in Mats :
        Do("loadMatrix", 0, "forget", NoEntry,
           IF api = "onload" THEN onload_loadMatrix(m) ELSE create_loadMatrix(m))

gl_multMatrix(m) ==
    IF api = "onload" THEN onload_multMatrix(m) ELSE create_multMatrix(m)

multMatrix ==
    \E m \in Mats :
        Do("multMatrix", 0, "append", [f |-> "multMatrix", m |-> m, v |-> <<0, 0, 0>>],
           gl_multMatrix(m))

\* gl.translate = function(x, y, z) { gl.multMatrix(Matrix.translate(x, y, z)); }
gl_translate(x, y, z) == gl_multMatrix(Matrix_translate(x, y, z))

\* gl.scale = function(x, y, z) { gl.multMatrix(Matrix.scale(x, y, z)); }
gl_scale(x, y, z) == gl_multMatrix(Matrix_scale(x, y, z))

translate ==
    \E t \in TranslateArgs :
        Do("translate", 0, "append", [f |-> "translate", m |-> EmptyArray, v |-> t],
           gl_translate(t[1], t[2], t[3]))

scale ==
    \E t \in ScaleArgs :
        Do("scale", 0, "append", [f |-> "scale", m |-> EmptyArray, v |-> t],
           gl_scale(t[1], t[2], t[3]))

pushMatrix ==
    Do("pushMatrix", 0, "keep", NoEntry,
       IF api = "onload" THEN onload_pushMatrix ELSE create_pushMatrix)

popMatrix ==
    Do("popMatrix", 0, "forget", NoEntry,
       IF api = "onload" THEN onload_popMatrix ELSE create_popMatrix)

\* The context as window.onload (main.js:45-49, 122) or addMatrixStack
\* (main.js:310-314, 391) leaves it: two identity matrices, two empty stacks,
\* and gl.matrixMode(gl.MODELVIEW) called once.
StackInit ==
    /\ api \in {"onload", "create"}
    /\ hasFloat32Array \in (IF api = "onload" THEN {FALSE} ELSE BOOLEAN)
    /\ heap = [id \in {1, 2} |-> Matrix]
    /\ gl = [modelviewMatrix |-> 1, projectionMatrix |-> 2]
    /\ stacks = [modelviewStack |-> <<>>, projectionStack |-> <<>>]
    /\ matrix = "modelviewMatrix"
    /\ stack = "modelviewStack"
    /\ call = [op |-> "matrixMode", arg |-> MODELVIEW, threw |-> "none",
               expect |-> [some |-> FALSE, elems |-> EmptyArray]]
    /\ ops = 0
    /\ lastMode = MODELVIEW
    /\ saved = [r \in Registers |-> <<>>]
    /\ trail = [r \in Registers |-> [valid |-> TRUE, since |-> "new Matrix", calls |-> <<>>]]

\* no Matrix function called, no HitTest in use
MatrixIdle ==
    /\ mThis = Matrix
    /\ mArg = Matrix
    /\ pfn = "none"
    /\ pin = [this |-> Matrix, arg |-> Matrix, args |-> <<>>]
    /\ pout = Matrix

HitIdle ==
    /\ recv = HitTest_noArguments
    /\ made = "none"
    /\ recv0 = HitTest_noArguments
    /\ hcall = [op |-> "new", before |-> HitTest_noArguments, given |-> Null,
                other |-> Null, threw |-> "none"]
    /\ seen = <<>>

\* gl.getParameter(gl.VIEWPORT) as an array [x, y, width, height]
Viewport(x, y, width, height) == [i \in 0..3 |-> <<x, y, width, height>>[i + 1]]

\* no function called, no Raytracer constructed, no key event delivered
PureIdle ==
    /\ fcall = [f |-> "none", args |-> <<>>]
    /\ fret = Null

CameraIdle ==
    /\ glViewport = Viewport(0, 0, 4, 2)
    /\ tracer = NoValue

KeysIdle ==
    /\ keys = [k \in {} |-> TRUE]
    /\ held = {}
    /\ everDown = {}

\* nothing made of the mouse, of several contexts, of textures, meshes, indexers
\* or the frame loop
ExtIdle ==
    /\ mouse = NoValue /\ ctx = NoValue /\ tex = NoValue
    /\ mesh = NoValue /\ indexer = NoValue /\ frame = NoValue

Init == StackInit /\ MatrixIdle /\ HitIdle /\ PureIdle /\ CameraIdle /\ KeysIdle /\ ExtIdle

Next ==
    \/ matrixMode
    \/ loadIdentity
    \/ loadMatrix
    \/ multMatrix
    \/ translate
    \/ scale
    \/ pushMatrix
    \/ popMatrix

Spec == Init /\ [][Next]_vars

-----------------------------------------------------------------------------
(* Reference definitions the claims are stated with: the textbook product  *)
(* and the action of a matrix on a homogeneous point.                      *)

\* entry r*4+c of the row-major product: the sum over k of A[r*4+k] * B[k*4+c]
MatProd(A, B) ==
    [i \in 0..15 |->
        LET r == i \div 4
            c == i % 4
        IN  A[r * 4] * B[c] + A[r * 4 + 1] * B[4 + c]
              + A[r * 4 + 2] * B[8 + c] + A[r * 4 + 3] * B[12 + c]]

\* M applied to the homogeneous point p = (p[0], p[1], p[2], p[3])
Apply4(M, p) ==
    [r \in 0..3 |-> M[r * 4] * p[0] + M[r * 4 + 1] * p[1]
                      + M[r * 4 + 2] * p[2] + M[r * 4 + 3] * p[3]]

\* what one logged call does to a homogeneous point
Act(c, p) ==
    CASE c.f = "translate" ->
           [r \in 0..3 |-> IF r = 3 THEN p[3] ELSE p[r] + c.v[r + 1] * p[3]]
      [] c.f = "scale" ->
           [r \in 0..3 |-> IF r = 3 THEN p[3] ELSE c.v[r + 1] * p[r]]
      [] OTHER -> Apply4(c.m, p)

\* the calls applied to p, the most recently issued (the last of the log) first
RECURSIVE ApplyTrail(_, _)
ApplyTrail(calls, p) ==
    IF calls = <<>> THEN p
    ELSE CHOOSE q \in {Act(Head(calls), w) : w \in {ApplyTrail(Tail(calls), p)}} : TRUE

Point4(x, y, z, w) == [r \in 0..3 |-> <<x, y, z, w>>[r + 1]]

Points == {Point4(1, 0, 0, 0), Point4(0, 1, 0, 0), Point4(0, 0, 1, 0),
           Point4(0, 0, 0, 1), Point4(-2, 1, 5, 1)}

\* the 16 entries behind each reference of a stack
StackVals(h, st) == [i \in 1..Len(st) |-> h[st[i]]]

-----------------------------------------------------------------------------
(* The claims about the matrix stack.                                      *)

\* C1: multMatrix right-multiplies the active matrix.  Right after a
\* loadIdentity, multMatrix, translate or scale, when the calls made on the
\* active register since loadIdentity (or construction) were only multMatrix,
\* translate and scale, its matrix maps every point as those calls applied with
\* the most recent one first; after loadIdentity(); multMatrix(A); multMatrix(B)
\* it is the product A*B, and translate(t); scale(s) maps p to s*p + t.
C1_MultMatrixRightMultiplies ==
    LET r == RegisterOf(lastMode)
    IN  (/\ call.op \in {"loadIdentity", "multMatrix", "translate", "scale"}
         /\ call.threw = "none"
         /\ trail[r].valid) =>
            /\ gl[r] # Undefined
            /\ DOMAIN heap[gl[r]] = 0..15
            /\ \A p \in Points :
                   Apply4(heap[gl[r]], p) = ApplyTrail(trail[r].calls, p)
            /\ LET cs == trail[r].calls
               IN  /\ (Len(cs) = 2 /\ cs[1].f = "multMatrix" /\ cs[2].f = "multMatrix")
                          => heap[gl[r]] = MatProd(cs[1].m, cs[2].m)
                   /\ (Len(cs) = 2 /\ cs[1].f = "translate" /\ cs[2].f = "scale")
                          => \A p \in Points :
                                 Apply4(heap[gl[r]], p) =
                                     [k \in 0..3 |->
                                         IF k = 3 THEN p[3]
                                         ELSE cs[2].v[k + 1] * p[k] + cs[1].v[k + 1] * p[3]]

\* C1 witness: loadIdentity(); multMatrix(A); multMatrix(B) with A # B was just run.
C1_Witness ==
    LET r == RegisterOf(lastMode)
    IN  /\ trail[r].valid /\ trail[r].since = "loadIdentity"
        /\ call.op = "multMatrix" /\ call.threw = "none"
        /\ Len(trail[r].calls) = 2
        /\ trail[r].calls[1].f = "multMatrix" /\ trail[r].calls[2].f = "multMatrix"
        /\ trail[r].calls[1].m # trail[r].calls[2].m

\* C2: pushMatrix/popMatrix snapshot and restore the active register by value.
\* Every pending snapshot still holds the 16 entries read at its push, whatever
\* was called since, and a popMatrix with a pending push leaves the active
\* matrix with the entries of the most recent pending push (last in, first out).
C2_PushPopRestoresByValue ==
    /\ \A r \in Registers :
           StackVals(heap, stacks[StackOf(r)]) = saved[r]
    /\ (call.op = "popMatrix" /\ call.expect.some)
           => Val(heap, gl[RegisterOf(lastMode)])
                  = [tag |-> "array", elems |-> call.expect.elems]

\* C2 witness: a nested popMatrix restored a matrix that differs from the one
\* of the enclosing push, which is still pending.
C2_Witness ==
    LET r == RegisterOf(lastMode)
    IN  /\ call.op = "popMatrix" /\ call.expect.some
        /\ Len(saved[r]) >= 1
        /\ call.expect.elems # saved[r][Len(saved[r])]
        /\ call.expect.elems # Matrix

\* C3: the two registers are independent.  A call changes neither the matrix
\* nor the stack of the register that the most recent successful matrixMode
\* did not select; matrixMode changes no matrix and no stack; the mode after
\* construction is MODELVIEW.
C3_RegistersIndependent ==
    [][ LET r == RegisterOf(lastMode)
            o == OtherRegister(r)
        IN  /\ (ops = 0 => lastMode = MODELVIEW /\ matrix = "modelviewMatrix")
            /\ Val(heap', gl'[o]) = Val(heap, gl[o])
            /\ StackVals(heap', stacks'[StackOf(o)]) = StackVals(heap, stacks[StackOf(o)])
            /\ call'.op = "matrixMode"
                   => /\ Val(heap', gl'[r]) = Val(heap, gl[r])
                      /\ StackVals(heap', stacks'[StackOf(r)])
                             = StackVals(heap, stacks[StackOf(r)])
      ]_vars

\* C3 witness: a call in PROJECTION mode has just pushed, while the modelview
\* register holds a matrix and a snapshot of its own.
C3_Witness ==
    /\ lastMode = PROJECTION
    /\ call.op = "pushMatrix" /\ call.threw = "none"
    /\ stacks["modelviewStack"] # <<>>
    /\ Val(heap, gl["modelviewMatrix"]) # [tag |-> "array", elems |-> Matrix]

\* C4: matrixMode with a mode that is neither MODELVIEW nor PROJECTION throws
\* 'invalid matrix mode' and leaves the selection, both matrices and both
\* stacks as they were; the selection stays that of the last successful call.
C4_InvalidModeThrows ==
    [][ (call'.op = "matrixMode" /\ call'.arg \notin {MODELVIEW, PROJECTION})
            => /\ call'.threw = "invalid matrix mode"
               /\ matrix' = matrix /\ stack' = stack
               /\ matrix' = RegisterOf(lastMode) /\ stack' = StackOf(matrix')
               /\ \A r \in Registers :
                      /\ Val(heap', gl'[r]) = Val(heap, gl[r])
                      /\ StackVals(heap', stacks'[StackOf(r)])
                             = StackVals(heap, stacks[StackOf(r)])
      ]_vars

\* C4 witness: an invalid mode was rejected while PROJECTION was selected.
C4_Witness ==
    /\ call.op = "matrixMode" /\ call.threw = "invalid matrix mode"
    /\ call.arg \notin {MODELVIEW, PROJECTION}
    /\ lastMode = PROJECTION /\ matrix = "projectionMatrix"


-----------------------------------------------------------------------------
(* The Matrix functions, each called once on matrices drawn from TestMats. *)

\* the number of dense matrices among the test matrices
NumDense == 3

\* the matrix whose only non-zero entry is a 1 at index k
Unit(k) == [i \in 0..15 |-> IF i = k THEN 1 ELSE 0]

\* a matrix with every entry in -3..3
Dense(k) == [i \in 0..15 |-> ((i * i * i + k * i * i + k) % 7) - 3]

\* a matrix of rank 3 and a perspective-like matrix (last row 0 0 -1 0)
Rank3 == ArrayOf(<<1, 2, 3, 4,  2, 4, 6, 8,  0, 1, 0, 1,  1, 0, 1, 0>>)

Persp == ArrayOf(<<2, 0, 0, 0,  0, 2, 0, 0,  0, 0, -3, -4,  0, 0, -1, 0>>)

\* The 16 unit matrices span all matrices and Matrix.multiply is a sum of
\* products of one entry of each operand, so the unit pairs exercise every term.
TestMats ==
    {Unit(k) : k \in 0..15} \cup {Dense(k) : k \in 1..NumDense}
        \cup {Matrix, [i \in 0..15 |-> 0], MatA, MatB, Rank3, Persp,
              Matrix_translate(1, 2, 3), Matrix_scale(2, 3, 4)}

\* the arguments handed to Matrix.rotate: every combination the model can
\* evaluate exactly (all of those the guard rejects are among them)
RotateAngles == {QInt(0), QInt(90), QInt(180), QInt(-90), QInt(45), NaN, Infinity}

RotateArgs ==
    {r \in [a : RotateAngles, x : {QInt(0), QInt(3), NaN}, y : {QInt(0), QInt(4), NaN},
            z : {QInt(0), QInt(-2), NaN}] :
        (Truthy(r.a) /\ (Truthy(r.x) \/ Truthy(r.y) \/ Truthy(r.z)))
            => /\ HasExactTrig(r.a)
               /\ HasExactSqrt(QAdd(QAdd(QMul(r.x, r.x), QMul(r.y, r.y)), QMul(r.z, r.z)))}

\* window coordinates and viewports [x, y, width, height] handed to gl.unProject
Wins == {<<QInt(0), QInt(0), QInt(1)>>, <<QInt(3), QInt(1), QInt(0)>>, <<QInt(2), QInt(4), Q(1, 2)>>}

Viewports == {Viewport(0, 0, 4, 2), Viewport(1, 2, 8, 4)}

\* a call that reads the two matrices and returns ret
Called(f, args, ret) ==
    /\ pfn = "none"
    /\ pfn' = f
    /\ pin' = [this |-> mThis, arg |-> mArg, args |-> args]
    /\ pout' = ret
    /\ UNCHANGED <<mThis, mArg, stackVars, hitVars, pureVars, cameraVars, keyVars, extVars>>

\* this.multiply(matrix)
multiply == Called("multiply", <<>>, Matrix_multiply(mThis, mArg))

\* this.inverse()
inverse == Called("inverse", <<>>, Matrix_inverse(mThis))

\* Matrix.rotate(a, x, y, z)
rotate == \E r \in RotateArgs : Called("rotate", r, Matrix_rotate(r.a, r.x, r.y, r.z))

\* gl.unProject(winX, winY, winZ, modelview, projection, viewport)
unProject ==
    \E w \in Wins, v \in Viewports :
        Called("unProject", <<w, v>>,
               gl_unProject(w[1], w[2], w[3], mThis, mArg, QArray(v)))

InitMatrix ==
    /\ StackInit /\ api = "onload"
    /\ HitIdle /\ PureIdle /\ CameraIdle /\ KeysIdle /\ ExtIdle
    /\ mThis \in TestMats
    /\ mArg \in TestMats
    /\ pfn = "none"
    /\ pin = [this |-> mThis, arg |-> mArg, args |-> <<>>]
    /\ pout = Matrix

NextMatrix ==
    \/ multiply
    \/ inverse
    \/ rotate
    \/ unProject

SpecMatrix == InitMatrix /\ [][NextMatrix]_vars


-----------------------------------------------------------------------------
(* Reference definitions for the Matrix claims.                            *)

\* the determinant of a 4x4 matrix, from the 2x2 minors of its upper and lower halves
RefDet(M) ==
    LET s0 == M[0] * M[5] - M[4] * M[1]
        s1 == M[0] * M[6] - M[4] * M[2]
        s2 == M[0] * M[7] - M[4] * M[3]
        s3 == M[1] * M[6] - M[5] * M[2]
        s4 == M[1] * M[7] - M[5] * M[3]
        s5 == M[2] * M[7] - M[6] * M[3]
        c5 == M[10] * M[15] - M[14] * M[11]
        c4 == M[9] * M[15] - M[13] * M[11]
        c3 == M[9] * M[14] - M[13] * M[10]
        c2 == M[8] * M[15] - M[12] * M[11]
        c1 == M[8] * M[14] - M[12] * M[10]
        c0 == M[8] * M[13] - M[12] * M[9]
    IN  s0 * c5 - s1 * c4 + s2 * c3 + s3 * c2 - s4 * c1 + s5 * c0

\* the row-major product of two arrays of numbers
QMatProd(A, B) ==
    [i \in 0..15 |->
        LET r == i \div 4
            c == i % 4
        IN  QAdd(QAdd(QAdd(QMul(A[r * 4], B[c]), QMul(A[r * 4 + 1], B[4 + c])),
                      QMul(A[r * 4 + 2], B[8 + c])), QMul(A[r * 4 + 3], B[12 + c]))]

\* d times the identity
Scalar(d) == [i \in 0..15 |-> IF i \div 4 = i % 4 THEN d ELSE 0]

\* window coordinates w in the viewport v as normalized device coordinates
RefNDC(w, v) ==
    [x |-> QSub(QDiv(QMul(QInt(2), QSub(w[1], QInt(v[0]))), QInt(v[2])), QInt(1)),
     y |-> QSub(QDiv(QMul(QInt(2), QSub(w[2], QInt(v[1]))), QInt(v[3])), QInt(1)),
     z |-> QSub(QMul(QInt(2), w[3]), QInt(1))]

-----------------------------------------------------------------------------
(* The claims about the Matrix functions.                                  *)

\* C5: Matrix.multiply is the standard row-major product.  Entry r*4+c of
\* A.multiply(B) is the sum over k of A[r*4+k]*B[k*4+c]; the default-constructed
\* matrix is neutral on both sides; neither operand is modified by the call.
C5_MultiplyIsRowMajorProduct ==
    pfn = "multiply" =>
        /\ DOMAIN pout = 0..15
        /\ \A r \in 0..3, c \in 0..3 :
               pout[r * 4 + c] =
                   pin.this[r * 4] * pin.arg[c] + pin.this[r * 4 + 1] * pin.arg[4 + c]
                     + pin.this[r * 4 + 2] * pin.arg[8 + c] + pin.this[r * 4 + 3] * pin.arg[12 + c]
        /\ (pin.this = Matrix => pout = pin.arg)
        /\ (pin.arg = Matrix => pout = pin.this)
        /\ mThis = pin.this /\ mArg = pin.arg

\* C5 witness: two dense matrices that do not commute were multiplied.
C5_Witness ==
    /\ pfn = "multiply"
    /\ pin.this = Dense(1) /\ pin.arg = Dense(2)
    /\ pout # MatProd(pin.arg, pin.this)

\* C6: for a non-singular M, M times M.inverse() is the identity (exactly, in
\* rational arithmetic); for every M the 16 cofactor sums are the adjugate: M
\* times them is det times the identity, det being the dot product of row 0 of
\* M with column 0 of the cofactor matrix, and that det is the determinant of M.
C6_InverseIsInverse ==
    pfn = "inverse" =>
        LET M == pin.this
        IN  /\ MatProd(M, Matrix_inverse_inv(M)) = Scalar(Matrix_inverse_det(M))
            /\ Matrix_inverse_det(M) = RefDet(M)
            /\ RefDet(M) # 0 => QMatProd(QArray(M), pout) = QArray(Matrix)

\* C6 witness: a matrix without a zero row whose determinant is neither 0 nor
\* +-1 was inverted, and the inverse has an entry that is not an integer.
C6_Witness ==
    /\ pfn = "inverse"
    /\ RefDet(pin.this) \notin {-1, 0, 1}
    /\ pin.this \in {Dense(k) : k \in 1..NumDense}
    /\ \E i \in 0..15 : pout[i].d > 1

\* C7: inverse() of a matrix whose determinant is 0 returns the identity and
\* leaves the receiver as it was; gl.unProject with a singular product
\* projection*modelview returns the normalized device coordinates unchanged.
C7_SingularInverseIsIdentity ==
    /\ (pfn = "inverse" /\ RefDet(pin.this) = 0)
           => /\ pout = QArray(Matrix)
              /\ mThis = pin.this
    /\ (pfn = "unProject" /\ RefDet(MatProd(pin.arg, pin.this)) = 0)
           => pout = RefNDC(pin.args[1], pin.args[2])

\* C7 witness: gl.unProject was called with a singular projection that is not
\* zero and a non-singular modelview that is not the identity.
C7_Witness ==
    /\ pfn = "unProject"
    /\ pin.arg = Rank3
    /\ RefDet(pin.this) # 0 /\ pin.this # Matrix
    /\ pout.x # QInt(0)

\* C8: Matrix.rotate(a, x, y, z) returns the identity when a is 0 or when x, y
\* and z are all 0, whatever the other arguments are, and then divides nothing
\* by the length of the axis.
C8_RotateDegenerateIsIdentity ==
    pfn = "rotate" =>
        LET r == pin.args
        IN  (r.a = QInt(0) \/ (r.x = QInt(0) /\ r.y = QInt(0) /\ r.z = QInt(0)))
                => /\ pout.m = QArray(Matrix)
                   /\ pout.divisors = {}

\* C8 witness: a rotation by 90 degrees about the zero axis was asked for.
C8_Witness ==
    /\ pfn = "rotate"
    /\ pin.args.a = QInt(90)
    /\ pin.args.x = QInt(0) /\ pin.args.y = QInt(0) /\ pin.args.z = QInt(0)
    /\ pout.m = QArray(Matrix)


-----------------------------------------------------------------------------
(* One HitTest and the results merged into it.                             *)

\* the number of mergeWith calls on the receiver
MaxMerges == 2

\* new HitTest(t, hit, normal) with a hit point and a normal that tell the
\* results apart
Given(t, k) == HitTest(t, Vector(QInt(k), QInt(0), QInt(0)), Vector(QInt(0), QInt(k), QInt(0)))

\* results built by hand: non-positive, two with the same t, large, infinite, NaN
GivenHits ==
    {Given(QInt(-1), 1), Given(QInt(0), 2), Given(QInt(2), 3), Given(QInt(2), 4),
     Given(QInt(5), 5), Given(Number_MAX_VALUE, 6), Given(Infinity, 7), Given(NaN, 8)}

\* rays from the origin along +z against spheres in front of the origin, around
\* it, behind it and beside the ray; only those whose discriminant has a
\* rational root
Scenes ==
    {sc \in [origin : {Vector(QInt(0), QInt(0), QInt(0))},
             ray    : {Vector(QInt(0), QInt(0), QInt(1))},
             center : {Vector(QInt(cx), QInt(0), QInt(cz)) : cx \in {0, 3, 6}, cz \in {-5, 0, 1, 5}},
             radius : {QInt(1), QInt(5)}] :
        HasExactSqrt(Raytracer_hitTestSphere_discriminant(sc.origin, sc.ray, sc.center, sc.radius))}

SphereHit(sc) == Raytracer_hitTestSphere(sc.origin, sc.ray, sc.center, sc.radius)

\* this.mergeWith(other); reading other.t of null throws a TypeError
Merge(other) ==
    /\ made # "none"
    /\ Len(seen) < MaxMerges
    /\ IF other = Null
       THEN /\ hcall' = [op |-> "mergeWith", before |-> recv, given |-> other,
                         other |-> other, threw |-> "TypeError"]
            /\ UNCHANGED <<recv, seen>>
       ELSE LET out == HitTest_mergeWith(recv, other)
            IN  /\ recv' = out.this
                /\ hcall' = [op |-> "mergeWith", before |-> recv, given |-> other,
                             other |-> out.other, threw |-> "none"]
                /\ seen' = Append(seen, other)
    /\ UNCHANGED <<made, recv0, stackVars, matrixVars, pureVars, cameraVars, keyVars, extVars>>

\* result.mergeWith(new HitTest(t, hit, normal))
mergeWith == \E other \in GivenHits : Merge(other)

\* result.mergeWith(Raytracer.hitTestSphere(origin, ray, center, radius))
mergeWithHitTestSphere == \E sc \in Scenes : Merge(SphereHit(sc))

InitHit ==
    /\ StackInit /\ api = "onload"
    /\ MatrixIdle /\ PureIdle /\ CameraIdle /\ KeysIdle /\ ExtIdle
    /\ \/ made = "new HitTest()" /\ recv = HitTest_noArguments
       \/ made = "new HitTest(t, hit, normal)" /\ recv \in GivenHits
       \/ made = "hitTestSphere" /\ recv \in {SphereHit(sc) : sc \in Scenes} \ {Null}
    /\ recv0 = recv
    /\ hcall = [op |-> "new", before |-> recv, given |-> Null, other |-> Null,
                threw |-> "none"]
    /\ seen = <<>>

NextHit ==
    \/ mergeWith
    \/ mergeWithHitTestSphere

SpecHit == InitHit /\ [][NextHit]_vars

-----------------------------------------------------------------------------
(* The claims about HitTest.                                               *)

\* the results of a sequence
Range(q) == {q[i] : i \in 1..Len(q)}

\* t > 0 as a fact about the number, not as the code tests it
Positive(t) == t.n > 0

\* C9: mergeWith copies t, hit and normal of other into this exactly when
\* other.t > 0 and other.t < this.t; when other is farther, ties, or has a
\* non-positive t, the three fields of this stay as they were; other is never
\* modified.
C9_MergeWithCopiesExactlyWhenCloser ==
    (hcall.op = "mergeWith" /\ hcall.threw = "none") =>
        LET o == hcall.given
            b == hcall.before
        IN  /\ (Positive(o.t) /\ QLess(o.t, b.t))
                   => recv = [t |-> o.t, hit |-> o.hit, normal |-> o.normal]
            /\ (QLess(b.t, o.t) \/ o.t = b.t \/ ~Positive(o.t)) => recv = b
            /\ recv \in {b, [t |-> o.t, hit |-> o.hit, normal |-> o.normal]}
            /\ hcall.other = o

\* C9 witness: a result with the same t as the receiver, but another hit
\* point, was merged and the receiver kept its own.
C9_Witness ==
    /\ hcall.op = "mergeWith" /\ hcall.threw = "none"
    /\ hcall.given.t = hcall.before.t /\ Positive(hcall.given.t)
    /\ hcall.given.hit # hcall.before.hit
    /\ recv = hcall.before
    /\ Len(seen) = 2 /\ recv # recv0

\* C10: after any sequence of mergeWith calls, on a receiver that was
\* default-constructed, constructed from arguments or returned by
\* hitTestSphere: when the receiver as constructed or any merged result has
\* t > 0, the receiver's t is positive, no positive t among them is smaller,
\* and the receiver's hit and normal are those of a result with that t.
C10_ReceiverHoldsClosestPositiveHit ==
    LET all == {recv0} \cup Range(seen)
        pos == {h \in all : Positive(h.t)}
    IN  (made \in {"new HitTest()", "hitTestSphere"} /\ pos # {}) =>
            /\ Positive(recv.t)
            /\ \A h \in pos : ~QLess(h.t, recv.t)
            /\ recv \in pos

\* C11: a HitTest constructed with no arguments has t equal to +Infinity, and
\* keeps it until a hit is recorded; a result with any positive t merged into
\* it is accepted.
C11_DefaultIsInfinity ==
    made = "new HitTest()" =>
        /\ (recv.hit = NoValue => recv.t = Infinity)
        /\ (Len(seen) = 1 /\ Positive(seen[1].t)) => recv = seen[1]

-----------------------------------------------------------------------------
(* The hit tests of the raytracer, each called once.                       *)

\* new Vector(x, y, z) with integer arguments
V3(x, y, z) == Vector(QInt(x), QInt(y), QInt(z))

\* the six unit vectors along the axes
AxisRays == {V3(1, 0, 0), V3(-1, 0, 0), V3(0, 1, 0), V3(0, -1, 0), V3(0, 0, 1), V3(0, 0, -1)}

\* origins outside, inside and behind spheres, rays along the axes and one ray
\* of length 2; only the scenes whose discriminant has a rational root
SphereScenes ==
    {sc \in [origin : {V3(0, 0, -5), V3(0, 0, 0), V3(3, 0, 0)},
             ray    : AxisRays \cup {V3(0, 0, 2)},
             center : {V3(0, 0, 0), V3(0, 0, 5), V3(3, 4, 0), V3(0, 1, 0)},
             radius : {QInt(1), QInt(2), QInt(5)}] :
        HasExactSqrt(Raytracer_hitTestSphere_discriminant(sc.origin, sc.ray, sc.center, sc.radius))}

\* one call of a function: its arguments are recorded with what it returned
Apply(f, args, ret) ==
    /\ fcall.f = "none"
    /\ fcall' = [f |-> f, args |-> args]
    /\ fret' = ret
    /\ UNCHANGED <<stackVars, matrixVars, hitVars, cameraVars, keyVars, extVars>>

\* Raytracer.hitTestSphere(origin, ray, center, radius)
hitTestSphere == \E sc \in SphereScenes : Apply("hitTestSphere", sc, SphereHit(sc))

\* boxes, with origins in front of a face, inside, on a face, off a corner
\* and beside the box, and rays with positive, negative and zero components
BoxScenes ==
    [origin : {V3(-5, 0, 0), V3(0, 0, 0), V3(-5, -5, -5), V3(5, 5, 5), V3(-1, 0, 0),
               V3(-5, 1, 0), V3(-5, 3, 0), Vector(Q(1, 2), Q(1, 2), QInt(9))},
     ray    : {V3(1, 0, 0), V3(-1, 0, 0), V3(1, 1, 1), V3(-1, -1, -1), V3(0, 0, 1),
               V3(0, 0, -1), V3(2, 1, 0), V3(4, 4, 5)},
     box    : {[min |-> V3(-1, -1, -1), max |-> V3(1, 1, 1)],
               [min |-> V3(0, 0, 0), max |-> V3(2, 4, 6)]}]
    \cup
    \* a ray that enters the face x = -1 half of epsilon away from the edge y = 1
    {[origin |-> Vector(QInt(-5), Q(2 * EpsilonDenominator - 1, 2 * EpsilonDenominator), QInt(0)),
      ray |-> V3(1, 0, 0), box |-> [min |-> V3(-1, -1, -1), max |-> V3(1, 1, 1)]]}

\* triangles in an axis plane, in a slanted plane and with collinear corners;
\* origins above the inside, an edge, a corner, the outside, and in the plane
TriangleScenes ==
    [origin : {Vector(Q(1, 4), Q(1, 4), QInt(1)), Vector(Q(1, 2), Q(1, 2), QInt(1)),
               V3(0, 0, 1), V3(1, 0, 1), V3(1, 1, 1), Vector(Q(1, 4), Q(1, 4), QInt(-1)),
               Vector(Q(1, 4), Q(1, 4), QInt(0)), V3(-1, 1, 2)},
     ray    : {V3(0, 0, -1), V3(0, 0, 1), V3(1, 0, 0), V3(0, 0, -2), V3(1, 0, -1)},
     tri    : {[a |-> V3(0, 0, 0), b |-> V3(1, 0, 0), c |-> V3(0, 1, 0)],
               [a |-> V3(0, 0, 0), b |-> V3(0, 1, 0), c |-> V3(1, 0, 0)],
               [a |-> V3(0, 0, 0), b |-> V3(1, 0, 0), c |-> V3(0, 3, 4)],
               [a |-> V3(0, 0, 0), b |-> V3(1, 0, 0), c |-> V3(2, 0, 0)]}]

\* Raytracer.hitTestBox(origin, ray, min, max)
hitTestBox ==
    \E sc \in BoxScenes :
        Apply("hitTestBox", sc, Raytracer_hitTestBox(sc.origin, sc.ray, sc.box.min, sc.box.max))

\* Raytracer.hitTestTriangle(origin, ray, a, b, c)
hitTestTriangle ==
    \E sc \in TriangleScenes :
        Apply("hitTestTriangle", sc,
              Raytracer_hitTestTriangle(sc.origin, sc.ray, sc.tri.a, sc.tri.b, sc.tri.c))

InitRay ==
    /\ StackInit /\ api = "onload"
    /\ MatrixIdle /\ HitIdle /\ PureIdle /\ CameraIdle /\ KeysIdle /\ ExtIdle

NextRay ==
    \/ hitTestSphere
    \/ hitTestBox
    \/ hitTestTriangle

SpecRay == InitRay /\ [][NextRay]_vars

-----------------------------------------------------------------------------
(* The claims about Raytracer.hitTestSphere.                               *)

\* the squared length of a vector, and the square of a number
Norm2(v) == Vector_dot(v, v)

Sq(x) == QMul(x, x)

\* the scene of the spec's example
SphereExample ==
    [origin |-> V3(0, 0, -5), ray |-> V3(0, 0, 1), center |-> V3(0, 0, 0), radius |-> QInt(1)]

\* the ray is a unit vector along an axis, the centre lies on it ahead of the
\* origin at distance dist, and the origin is outside the sphere
AimedFromOutside(sc, dist) ==
    /\ sc.ray \in AxisRays
    /\ Vector_subtract(sc.center, sc.origin) = Vector_multiply(sc.ray, dist)
    /\ QLess(sc.radius, dist)

\* the line of the ray passes the centre at more than the radius
MissesSphere(sc) ==
    LET offset == Vector_subtract(sc.origin, sc.center)
    IN  QLess(QMul(Sq(sc.radius), Norm2(sc.ray)),
              QSub(QMul(Norm2(offset), Norm2(sc.ray)), Sq(Vector_dot(sc.ray, offset))))

\* C12: from an origin outside the sphere, along a unit axis ray aimed at the
\* centre, hitTestSphere returns t = distance(origin, center) - radius, hit =
\* origin + t*ray and normal = (hit - center)/radius; the spec's example gives
\* t = 4, hit = (0,0,-1), normal = (0,0,-1); a ray whose line misses the sphere
\* (negative discriminant) returns null.
C12_SphereEntryHit ==
    fcall.f = "hitTestSphere" =>
        LET sc == fcall.args
            dist == Vector_dot(sc.ray, Vector_subtract(sc.center, sc.origin))
            t == QSub(dist, sc.radius)
            hit == [x |-> QAdd(sc.origin.x, QMul(t, sc.ray.x)),
                    y |-> QAdd(sc.origin.y, QMul(t, sc.ray.y)),
                    z |-> QAdd(sc.origin.z, QMul(t, sc.ray.z))]
        IN  /\ AimedFromOutside(sc, dist) =>
                /\ fret # Null
                /\ fret.t = t
                /\ fret.hit = hit
                /\ fret.normal = [x |-> QDiv(QSub(hit.x, sc.center.x), sc.radius),
                                  y |-> QDiv(QSub(hit.y, sc.center.y), sc.radius),
                                  z |-> QDiv(QSub(hit.z, sc.center.z), sc.radius)]
            /\ sc = SphereExample =>
                   fret = [t |-> QInt(4), hit |-> V3(0, 0, -1), normal |-> V3(0, 0, -1)]
            /\ MissesSphere(sc) => fret = Null

\* C12 witness: the example of the spec was traced.
C12_Witness ==
    /\ fcall.f = "hitTestSphere"
    /\ fcall.args = SphereExample
    /\ fret # Null /\ fret.t = QInt(4)

\* C13: hitTestSphere returns a HitTest only for an entry into the sphere
\* ahead of the origin: every HitTest returned has t > 0, and an origin inside
\* the sphere, or a sphere wholly behind the origin, gives null.
C13_SphereHitsArePositive ==
    fcall.f = "hitTestSphere" =>
        LET sc == fcall.args
            offset == Vector_subtract(sc.origin, sc.center)
        IN  /\ fret # Null => Positive(fret.t)
            /\ QLess(Norm2(offset), Sq(sc.radius)) => fret = Null
            /\ (QLess(Sq(sc.radius), Norm2(offset)) /\ QLess(QInt(0), Vector_dot(sc.ray, offset)))
                   => fret = Null

-----------------------------------------------------------------------------
(* The claims about Raytracer.hitTestBox.                                  *)

Axes == {"x", "y", "z"}

\* where the line of the ray crosses the two planes of axis k, nearer and farther
SlabNear(sc, k) ==
    QMin(QDiv(QSub(sc.box.min[k], sc.origin[k]), sc.ray[k]),
         QDiv(QSub(sc.box.max[k], sc.origin[k]), sc.ray[k]))

SlabFar(sc, k) ==
    QMax(QDiv(QSub(sc.box.min[k], sc.origin[k]), sc.ray[k]),
         QDiv(QSub(sc.box.max[k], sc.origin[k]), sc.ray[k]))

RefNear(sc) == QMax(QMax(SlabNear(sc, "x"), SlabNear(sc, "y")), SlabNear(sc, "z"))

RefFar(sc) == QMin(QMin(SlabFar(sc, "x"), SlabFar(sc, "y")), SlabFar(sc, "z"))

\* the origin lies in a plane of the box that the ray runs parallel to (0/0)
ZeroOverZero(sc) ==
    \E k \in Axes : sc.ray[k] = QInt(0) /\ sc.origin[k] \in {sc.box.min[k], sc.box.max[k]}

\* the spec's example
BoxExample ==
    [origin |-> V3(-5, 0, 0), ray |-> V3(1, 0, 0),
     box |-> [min |-> V3(-1, -1, -1), max |-> V3(1, 1, 1)]]

\* hit iff tNear > 0 and tNear < tFar, with t = tNear and hit = origin + ray*tNear;
\* null from an origin inside the box
BoxHitIffSlabsOverlap ==
    fcall.f = "hitTestBox" =>
        LET sc == fcall.args
        IN  /\ ~ZeroOverZero(sc) =>
                /\ (fret # Null) <=> (QGreater(RefNear(sc), QInt(0)) /\ QLess(RefNear(sc), RefFar(sc)))
                /\ fret # Null =>
                       /\ fret.t = RefNear(sc)
                       /\ \A k \in Axes :
                              fret.hit[k] = QAdd(sc.origin[k], QMul(sc.ray[k], RefNear(sc)))
            /\ (\A k \in Axes : QLess(sc.box.min[k], sc.origin[k]) /\ QLess(sc.origin[k], sc.box.max[k]))
                   => fret = Null
            /\ sc = BoxExample => (fret # Null /\ fret.t = QInt(4) /\ fret.normal = V3(-1, 0, 0))

\* the ray enters through the face of axis k, at more than margin from the
\* face's edges: the normal is -1 or +1 on k, against the ray, and 0 elsewhere
FaceNormal(margin) ==
    (fcall.f = "hitTestBox" /\ fret # Null) =>
        LET sc == fcall.args
        IN  \A k \in Axes :
                (/\ SlabNear(sc, k) = RefNear(sc)
                 /\ \A j \in Axes \ {k} :
                        /\ QLess(QAdd(sc.box.min[j], margin), fret.hit[j])
                        /\ QLess(fret.hit[j], QSub(sc.box.max[j], margin)))
                    => /\ fret.normal[k] = (IF QLess(QInt(0), sc.ray[k]) THEN QInt(-1) ELSE QInt(1))
                       /\ \A j \in Axes \ {k} : fret.normal[j] = QInt(0)

-----------------------------------------------------------------------------
(* The claims about Raytracer.hitTestTriangle.                             *)

\* cross(b - a, c - a): a normal of the triangle's plane, not normalized
PlaneNormal(tri) == Vector_cross(Vector_subtract(tri.b, tri.a), Vector_subtract(tri.c, tri.a))

\* where the line of the ray meets the plane of the triangle
PlaneT(sc) ==
    QDiv(Vector_dot(PlaneNormal(sc.tri), Vector_subtract(sc.tri.a, sc.origin)),
         Vector_dot(PlaneNormal(sc.tri), sc.ray))

PlanePoint(sc) == Vector_add(sc.origin, Vector_multiply(sc.ray, PlaneT(sc)))

\* p, a point of the plane, is on the inner side of the edge from -> to
InnerSide(tri, from, to, p) ==
    QGreaterEq(Vector_dot(Vector_cross(Vector_subtract(to, from), Vector_subtract(p, from)),
                          PlaneNormal(tri)),
               QInt(0))

\* p is in the closed triangle: u >= 0, v >= 0 and u + v <= 1
InTriangle(tri, p) ==
    /\ InnerSide(tri, tri.a, tri.b, p)
    /\ InnerSide(tri, tri.b, tri.c, p)
    /\ InnerSide(tri, tri.c, tri.a, p)

OnEdge(tri, p) ==
    \E e \in {<<tri.a, tri.b>>, <<tri.b, tri.c>>, <<tri.c, tri.a>>} :
        Vector_cross(Vector_subtract(e[2], e[1]), Vector_subtract(p, e[1])) = V3(0, 0, 0)

Parallel(sc) == Vector_dot(PlaneNormal(sc.tri), sc.ray) = QInt(0)

\* the spec's example
TriangleExample ==
    [origin |-> Vector(Q(1, 4), Q(1, 4), QInt(1)), ray |-> V3(0, 0, -1),
     tri |-> [a |-> V3(0, 0, 0), b |-> V3(1, 0, 0), c |-> V3(0, 1, 0)]]

\* C15: for a triangle with a plane (its corners are not collinear),
\* hitTestTriangle returns a HitTest iff the ray is not parallel to the plane,
\* meets it at t > 0 and the point is in the closed triangle (edges and corners
\* included), and null otherwise; the result has t = n.(a-origin)/n.ray,
\* hit = origin + t*ray and normal = unit(cross(b-a, c-a)); the spec's example
\* gives t = 1, hit (1/4,1/4,0) and normal (0,0,1).
C15_TriangleHit ==
    fcall.f = "hitTestTriangle" =>
        LET sc == fcall.args
            n  == PlaneNormal(sc.tri)
        IN  /\ n # V3(0, 0, 0) =>
                /\ (fret # Null) <=>
                       /\ ~Parallel(sc)
                       /\ QGreater(PlaneT(sc), QInt(0))
                       /\ InTriangle(sc.tri, PlanePoint(sc))
                /\ fret # Null =>
                       /\ fret.t = PlaneT(sc)
                       /\ fret.hit = PlanePoint(sc)
                       /\ Vector_dot(fret.normal, fret.normal) = QInt(1)
                       /\ Vector_cross(fret.normal, n) = V3(0, 0, 0)
                       /\ QGreater(Vector_dot(fret.normal, n), QInt(0))
            /\ sc = TriangleExample =>
                   /\ fret # Null /\ fret.t = QInt(1) /\ fret.normal = V3(0, 0, 1)
                   /\ fret.hit = Vector(Q(1, 4), Q(1, 4), QInt(0))

\* C15 witness: a ray that is not perpendicular to the slanted triangle hit
\* a point on one of its edges.
C15_Witness ==
    /\ fcall.f = "hitTestTriangle" /\ fret # Null
    /\ fcall.args.tri.c = V3(0, 3, 4)
    /\ OnEdge(fcall.args.tri, fret.hit)
    /\ fret.normal = Vector(QInt(0), Q(-4, 5), Q(3, 5))

-----------------------------------------------------------------------------
(* One call of a Vector operation or of Matrix.lookAt on degenerate and   *)
(* ordinary input.                                                         *)

\* vectors whose length is rational, the zero vector among them
UnitArgs ==
    {v \in [x : {QInt(0), QInt(3), QInt(-4), QInt(1), QInt(2)},
            y : {QInt(0), QInt(4), QInt(1), QInt(-2)},
            z : {QInt(0), QInt(-2), QInt(12), QInt(2)}] : HasExactSqrt(Vector_dot(v, v))}

\* a vector and a divisor, a Vector or a number, with zero components
DivideArgs ==
    [this : {V3(0, 0, 0), V3(1, 0, -2), V3(0, 3, 0), V3(6, 0, 4), V3(0, 0, -1), V3(2, 4, 6)},
     v    : {QInt(0), QInt(2), V3(0, 0, 0), V3(1, 2, 0), V3(0, 3, -1), V3(2, 2, 2)}]

\* eye, center and up, with up along and across the view direction
LookAtArgs ==
    {a \in [e : {V3(0, 0, 5), V3(0, 0, 0), V3(0, 2, 0), V3(3, 0, 4), V3(0, 0, -3)},
            c : {V3(0, 0, 0), V3(0, 0, -1), V3(3, 0, 0)},
            u : {V3(0, 1, 0), V3(0, 0, 1), V3(0, 0, -2), V3(1, 0, 0), V3(0, -1, 0),
                 V3(0, 0, 0)}] :
        LET f == Vector_subtract(a.e, a.c)
            s == Vector_cross(a.u, Vector_unit(f))
        IN  /\ HasExactSqrt(Vector_dot(f, f))
            /\ HasExactSqrt(Vector_dot(s, s))
            /\ HasExactSqrt(LET t == Vector_cross(Vector_unit(f), Vector_unit(s))
                            IN  Vector_dot(t, t))}

\* v.unit()
unit == \E v \in UnitArgs : Apply("unit", v, Vector_unit(v))

\* this.divide(v)
divide == \E a \in DivideArgs : Apply("divide", a, Vector_divide(a.this, a.v))

\* Matrix.lookAt(ex, ey, ez, cx, cy, cz, ux, uy, uz)
lookAt ==
    \E a \in LookAtArgs :
        Apply("lookAt", a,
              Matrix_lookAt(a.e.x, a.e.y, a.e.z, a.c.x, a.c.y, a.c.z, a.u.x, a.u.y, a.u.z))

InitVector ==
    /\ StackInit /\ api = "onload"
    /\ MatrixIdle /\ HitIdle /\ PureIdle /\ CameraIdle /\ KeysIdle /\ ExtIdle

NextVector ==
    \/ unit
    \/ divide
    \/ lookAt

SpecVector == InitVector /\ [][NextVector]_vars

\* the divisor of component k of this.divide(v)
DivisorOf(v, k) == IF IsVector(v) THEN v[k] ELSE v

\* up is parallel to the view direction e - c (both are not zero)
UpParallelToView(a) ==
    /\ a.u # V3(0, 0, 0) /\ a.e # a.c
    /\ Vector_cross(a.u, Vector_subtract(a.e, a.c)) = V3(0, 0, 0)

\* C16: unit() of the zero vector and divide() of a zero component by zero
\* yield NaN components (not 0), and Matrix.lookAt with up parallel to the
\* view direction yields a matrix that contains NaN.
C16_DegenerateInputYieldsNaN ==
    /\ (fcall.f = "unit" /\ fcall.args = V3(0, 0, 0)) =>
           \A k \in Axes : IsNaN(fret[k])
    /\ fcall.f = "divide" =>
           \A k \in Axes :
               (fcall.args.this[k] = QInt(0) /\ DivisorOf(fcall.args.v, k) = QInt(0))
                   => IsNaN(fret[k])
    /\ (fcall.f = "lookAt" /\ UpParallelToView(fcall.args)) =>
           \E i \in 0..15 : IsNaN(fret[i])

-----------------------------------------------------------------------------
(* The camera: gl.project, gl.unProject, new Raytracer() and              *)
(* getRayForPixel, on a context whose two matrices and viewport were set   *)
(* by the program.                                                         *)

\* rotations by 90 degrees about the x, y and z axes
RotX90 == ArrayOf(<<1, 0, 0, 0,  0, 0, -1, 0,  0, 1, 0, 0,  0, 0, 0, 1>>)

RotY90 == ArrayOf(<<0, 0, 1, 0,  0, 1, 0, 0,  -1, 0, 0, 0,  0, 0, 0, 1>>)

RotZ90 == ArrayOf(<<0, -1, 0, 0,  1, 0, 0, 0,  0, 0, 1, 0,  0, 0, 0, 1>>)

\* modelviews made of translations and rotations, and two with a scale
RigidModelviews ==
    {Matrix, Matrix_translate(1, 2, 3), Matrix_translate(0, 0, -5), RotY90,
     Matrix_multiply(RotZ90, Matrix_translate(1, 2, 3)),
     Matrix_multiply(Matrix_translate(1, 2, 3), RotX90),
     Matrix_multiply(Matrix_multiply(RotX90, Matrix_translate(-2, 0, 1)), RotY90)}

CameraModelviews ==
    RigidModelviews \cup {Matrix_scale(2, 3, 4),
                          Matrix_multiply(Matrix_translate(1, 2, 3), Matrix_scale(2, 1, 1))}

\* a projection with the far corners at (+-2, +-2, 1), a perspective-like and
\* a singular one
Narrow == ArrayOf(<<1, 0, 0, 0,  0, 1, 0, 0,  0, 0, 2, 0,  0, 0, 0, 2>>)

CameraProjections == {Matrix, Narrow, Persp, Rank3}

\* object-space points handed to gl.project
ObjPoints ==
    {V3(0, 0, 0), V3(1, 2, 3), V3(-2, 1, 5), V3(0, 0, -2), V3(3, -1, 0), V3(1, -1, 1),
     V3(-1, 1, -1)}

\* where a pixel lies across the viewport, as a fraction of its width or height
Fractions == {QInt(0), QInt(1), Q(1, 2), Q(1, 4), Q(7, 8), Q(9, 14), Q(5, 6)}

\* gl.modelviewMatrix.m and gl.projectionMatrix.m
ModelviewM == heap[gl.modelviewMatrix]

ProjectionM == heap[gl.projectionMatrix]

\* gl.project(objX, objY, objZ) with the context's matrices and viewport
project ==
    \E p \in ObjPoints :
        Apply("project", p,
              gl_project(p.x, p.y, p.z, ModelviewM, ProjectionM, QArray(glViewport)))

\* gl.unProject(winX, winY, winZ) of the window point gl.project returned
unProjectProjected ==
    /\ fcall.f = "project"
    /\ fcall' = [f |-> "unProject", args |-> fret, obj |-> fcall.args]
    /\ fret' = gl_unProject(fret.x, fret.y, fret.z, ModelviewM, ProjectionM, QArray(glViewport))
    /\ UNCHANGED <<stackVars, matrixVars, hitVars, cameraVars, keyVars, extVars>>

\* tracer = new Raytracer()
newRaytracer ==
    /\ tracer = NoValue
    /\ tracer' = Raytracer(QArray(glViewport), ModelviewM, ProjectionM)
    /\ UNCHANGED <<stackVars, matrixVars, hitVars, pureVars, glViewport, keyVars, extVars>>

\* tracer.getRayForPixel(x, y), for the pixels whose ray has a rational length
getRayForPixel ==
    /\ tracer # NoValue
    /\ \E u \in Fractions, v \in Fractions :
           LET x == QAdd(tracer.viewport[0], QMul(tracer.viewport[2], u))
               y == QAdd(tracer.viewport[1], QMul(tracer.viewport[3], v))
               r == Raytracer_getRayForPixel_lerp(tracer, x, y)
           IN  /\ HasExactSqrt(Vector_dot(r, r))
               /\ Apply("getRayForPixel", [x |-> x, y |-> y, this |-> tracer],
                        Raytracer_getRayForPixel(tracer, x, y))

\* the context after the program selected a mode and loaded its two matrices
InitCamera ==
    /\ api = "onload" /\ hasFloat32Array = FALSE
    /\ \E mv \in CameraModelviews, pr \in CameraProjections :
           heap = [id \in {1, 2} |-> IF id = 1 THEN mv ELSE pr]
    /\ gl = [modelviewMatrix |-> 1, projectionMatrix |-> 2]
    /\ stacks = [modelviewStack |-> <<>>, projectionStack |-> <<>>]
    /\ \E mode \in {MODELVIEW, PROJECTION} :
           /\ matrix = (IF mode = MODELVIEW THEN "modelviewMatrix" ELSE "projectionMatrix")
           /\ stack = (IF mode = MODELVIEW THEN "modelviewStack" ELSE "projectionStack")
           /\ call = [op |-> "matrixMode", arg |-> mode, threw |-> "none",
                      expect |-> [some |-> FALSE, elems |-> EmptyArray]]
           /\ lastMode = mode
    /\ ops = 0
    /\ saved = [r \in Registers |-> <<>>]
    /\ trail = [r \in Registers |-> [valid |-> FALSE, since |-> "loadMatrix", calls |-> <<>>]]
    /\ MatrixIdle /\ HitIdle /\ PureIdle /\ KeysIdle /\ ExtIdle
    /\ glViewport \in Viewports
    /\ tracer = NoValue

NextCamera ==
    \/ project
    \/ unProjectProjected
    \/ newRaytracer
    \/ getRayForPixel

SpecCamera == InitCamera /\ [][NextCamera]_vars

-----------------------------------------------------------------------------
(* The claims about gl.project and gl.unProject.                           *)

\* projection times modelview, and the clip coordinates (x, y, z, w) of the
\* object-space point p (whose coordinates are integers)
ClipMatrix == MatProd(ProjectionM, ModelviewM)

Clip(p) == Apply4(ClipMatrix, Point4(p.x.n, p.y.n, p.z.n, 1))

\* the modelview is affine, so that only the projection divides by w
AffineModelview == \A c \in 0..3 : ModelviewM[12 + c] = (IF c = 3 THEN 1 ELSE 0)

\* the window point of clip coordinates c in the viewport v
RefWindow(c, v) ==
    [x |-> QAdd(QInt(v[0]), QMul(QInt(v[2]), QDiv(QAdd(Q(c[0], c[3]), QInt(1)), QInt(2)))),
     y |-> QAdd(QInt(v[1]), QMul(QInt(v[3]), QDiv(QAdd(Q(c[1], c[3]), QInt(1)), QInt(2)))),
     z |-> QDiv(QAdd(Q(c[2], c[3]), QInt(1)), QInt(2))]

\* the object-space point and the window point of the last gl.project
Projected ==
    IF fcall.f = "project" THEN [obj |-> fcall.args, win |-> fret]
    ELSE [obj |-> fcall.obj, win |-> fcall.args]

-----------------------------------------------------------------------------
(* The claims about new Raytracer() and getRayForPixel.                    *)

\* row r of the upper-left 3x3 of M times row s
RowDot(M, r, s) == M[4 * r] * M[4 * s] + M[4 * r + 1] * M[4 * s + 1] + M[4 * r + 2] * M[4 * s + 2]

\* M is made of translations and orthonormal rotations only: its last row is
\* (0, 0, 0, 1) and the rows of its upper-left 3x3 are orthonormal
Rigid(M) ==
    /\ \A c \in 0..3 : M[12 + c] = (IF c = 3 THEN 1 ELSE 0)
    /\ \A r \in 0..2, s \in 0..2 : RowDot(M, r, s) = (IF r = s THEN 1 ELSE 0)

\* M is a translation
IsTranslation(M) == \A i \in 0..15 : i \notin {3, 7, 11} => M[i] = Matrix[i]

\* the clip coordinates of the point c (whose coordinates are rationals)
QClip(c) ==
    [r \in 0..3 |->
        QAdd(QAdd(QAdd(QMul(QInt(ClipMatrix[r * 4]), c.x), QMul(QInt(ClipMatrix[r * 4 + 1]), c.y)),
                  QMul(QInt(ClipMatrix[r * 4 + 2]), c.z)), QInt(ClipMatrix[r * 4 + 3]))]

\* the point c projects to the corner (sx, sy) = (+-1, +-1) of the far plane
IsFarCorner(c, sx, sy) ==
    LET q == QClip(c)
    IN  /\ q[3] # QInt(0)
        /\ q[0] = QMul(QInt(sx), q[3])
        /\ q[1] = QMul(QInt(sy), q[3])
        /\ q[2] = q[3]

\* the stored ray of the corner (sx, sy)
CornerRay(t, sx, sy) ==
    CASE sx = -1 /\ sy = -1 -> t.ray00
      [] sx = 1 /\ sy = -1 -> t.ray10
      [] sx = -1 /\ sy = 1 -> t.ray01
      [] OTHER -> t.ray11

\* C18: new Raytracer() takes the eye from the modelview whatever matrix mode
\* is active: for a modelview made of translations and orthonormal rotations
\* only, gl.modelviewMatrix.transformPoint(eye) is the origin (after a
\* translate(tx, ty, tz) alone the eye is (-tx, -ty, -tz)), and each stored
\* corner ray is the unprojected far-plane corner of the viewport minus the eye.
C18_RaytracerEyeAndCornerRays ==
    tracer # NoValue =>
        LET M == ModelviewM
            v == QArray(glViewport)
        IN  /\ Rigid(M) => Matrix_transformPoint(QArray(M), tracer.eye) = V3(0, 0, 0)
            /\ IsTranslation(M) => tracer.eye = V3(-M[3], -M[7], -M[11])
            /\ tracer.viewport = v
            /\ \A sx \in {-1, 1}, sy \in {-1, 1} :
                   LET c == Vector_add(CornerRay(tracer, sx, sy), tracer.eye)
                   IN  /\ RefDet(ClipMatrix) # 0 => IsFarCorner(c, sx, sy)
                       /\ c = gl_unProject(IF sx = -1 THEN v[0] ELSE QAdd(v[0], v[2]),
                                           IF sy = -1 THEN v[1] ELSE QAdd(v[1], v[3]),
                                           QInt(1), M, ProjectionM, v)

\* C18 witness: a Raytracer was constructed while the projection matrix was
\* the active one, from a modelview that rotates and translates and a
\* perspective-like projection; the eye is not the negated translation column.
C18_Witness ==
    /\ tracer # NoValue
    /\ matrix = "projectionMatrix"
    /\ ModelviewM = Matrix_multiply(RotZ90, Matrix_translate(1, 2, 3))
    /\ ProjectionM = Persp
    /\ tracer.eye = V3(-1, -2, -3)
    /\ tracer.eye # V3(-ModelviewM[3], -ModelviewM[7], -ModelviewM[11])

\* the bilinear interpolation of the stored corner rays at (u, 1 - v)
RefBilinear(t, u, v) ==
    Vector_lerp(Vector_lerp(t.ray00, t.ray10, u), Vector_lerp(t.ray01, t.ray11, u),
                QSub(QInt(1), v))

\* d is the direction of r: it has length 1 and is a positive multiple of r
IsDirectionOf(d, r) ==
    /\ Vector_dot(d, d) = QInt(1)
    /\ Vector_cross(d, r) = V3(0, 0, 0)
    /\ QGreater(Vector_dot(d, r), QInt(0))

\* C19: getRayForPixel(x, y) returns the direction of the bilinear
\* interpolation lerp(lerp(ray00, ray10, u), lerp(ray01, ray11, u), 1 - v) of the
\* stored corner rays, with u = (x - vx)/w and v = (y - vy)/h: at the viewport
\* corners (vx, vy), (vx+w, vy), (vx, vy+h) and (vx+w, vy+h) that is the
\* direction of ray01, ray11, ray00 and ray10; the stored rays and the
\* viewport are not modified.
C19_RayForPixelIsBilinear ==
    fcall.f = "getRayForPixel" =>
        LET t  == fcall.args.this
            vx == t.viewport[0]
            vy == t.viewport[1]
            w  == t.viewport[2]
            h  == t.viewport[3]
            x  == fcall.args.x
            y  == fcall.args.y
            u  == QDiv(QSub(x, vx), w)
            v  == QDiv(QSub(y, vy), h)
            r  == RefBilinear(t, u, v)
        IN  /\ r # V3(0, 0, 0) => IsDirectionOf(fret, r)
            /\ (x = vx /\ y = vy /\ t.ray01 # V3(0, 0, 0)) => IsDirectionOf(fret, t.ray01)
            /\ (x = QAdd(vx, w) /\ y = vy /\ t.ray11 # V3(0, 0, 0)) => IsDirectionOf(fret, t.ray11)
            /\ (x = vx /\ y = QAdd(vy, h) /\ t.ray00 # V3(0, 0, 0)) => IsDirectionOf(fret, t.ray00)
            /\ (x = QAdd(vx, w) /\ y = QAdd(vy, h) /\ t.ray10 # V3(0, 0, 0))
                   => IsDirectionOf(fret, t.ray10)
            /\ tracer = t

\* C19 witness: the pixel at the low corner (vx, vy) of a viewport that does
\* not start at 0 was asked for, and the ray returned is the direction of
\* ray01, which is not the direction of ray00.
C19_Witness ==
    /\ fcall.f = "getRayForPixel"
    /\ glViewport = Viewport(1, 2, 8, 4)
    /\ fcall.args.x = QInt(1) /\ fcall.args.y = QInt(2)
    /\ IsDirectionOf(fret, tracer.ray01)
    /\ ~IsDirectionOf(fret, tracer.ray00)

-----------------------------------------------------------------------------
(* The keyboard: the keys the user holds down and the events the browser   *)
(* delivers to the two listeners.                                          *)

\* the key codes of Ctrl, Alt and Meta, whose state the browser reports in
\* ctrlKey, altKey and metaKey of every keyboard event
ModifierCodes == [ctrlKey |-> 17, altKey |-> 18, metaKey |-> 91]

\* the keys of the model: the three modifiers, Space and A
KeyCodes == {17, 18, 91, 32, 65}

\* the event the browser delivers for the key code while the keys down are held
KeyboardEvent(code, down) ==
    [keyCode |-> code,
     ctrlKey |-> ModifierCodes.ctrlKey \in down,
     altKey  |-> ModifierCodes.altKey \in down,
     metaKey |-> ModifierCodes.metaKey \in down]

\* the user presses a key (or holds it, and the browser repeats the keydown)
KeyDown ==
    \E code \in KeyCodes :
        /\ held' = held \cup {code}
        /\ everDown' = everDown \cup {code}
        /\ keys' = keydown(KeyboardEvent(code, held'))
        /\ UNCHANGED <<stackVars, matrixVars, hitVars, pureVars, cameraVars, extVars>>

\* the user releases a key
KeyUp ==
    \E code \in held :
        /\ held' = held \ {code}
        /\ keys' = keyup(KeyboardEvent(code, held'))
        /\ UNCHANGED <<stackVars, matrixVars, hitVars, pureVars, cameraVars, everDown, extVars>>

InitKeys ==
    /\ StackInit /\ api = "create" /\ hasFloat32Array
    /\ MatrixIdle /\ HitIdle /\ PureIdle /\ CameraIdle /\ KeysIdle /\ ExtIdle

NextKeys ==
    \/ KeyDown
    \/ KeyUp

SpecKeys == InitKeys /\ [][NextKeys]_vars

\* C20: GL.keys[code] is true exactly when the key is held down, for every
\* key that was pressed at least once, whatever modifier was pressed or
\* released meanwhile; the named entry of a key equals its numeric entry.
C20_KeysReflectHeldKeys ==
    \A code \in KeyCodes :
        /\ code \in everDown => (IsTrue(keys, ToString(code)) <=> code \in held)
        /\ mapKeyCode(code) # Null =>
               LET name == mapKeyCode(code).string
               IN  /\ name \in DOMAIN keys <=> ToString(code) \in DOMAIN keys
                   /\ name \in DOMAIN keys => keys[name] = keys[ToString(code)]

-----------------------------------------------------------------------------
(* The mouse listeners of one context (main.js:470-564, addEventListeners). *)
(* The coordinates x, y, deltaX and deltaY of the augmented event are not   *)
(* modelled; hasOld is.                                                     *)

\* the listeners addEventListeners moves between gl.canvas and the document
Moved == {"mousemove", "mouseup"}

\* function isDragging(): some button of `buttons` is true
isDragging(buttons) == \E b \in DOMAIN buttons : buttons[b]

\* function augment(original): the event handed to the callback of the context
augment(m, type) ==
    [m EXCEPT !.hasOld = TRUE,
              !.last = [type |-> type, dragging |-> isDragging(m.buttons)],
              !.calls = @ + 1]

\* function mousedown(e), e.which = which
mousedown(m, which) ==
    LET m1 == IF ~isDragging(m.buttons)
              THEN [m EXCEPT !.document = @ \cup Moved, !.canvas = @ \ Moved]
              ELSE m
    IN  augment([m1 EXCEPT !.buttons = Put(@, which, TRUE)], "mousedown")

\* function mousemove(e)
mousemove(m) == augment(m, "mousemove")

\* a mouseup that moves the listeners back to the canvas whatever is still held
mouseup_alwaysShrink(m, which) ==
    LET m1 == [m EXCEPT !.buttons = Put(@, which, FALSE)]
    IN  augment([m1 EXCEPT !.document = @ \ Moved, !.canvas = @ \cup Moved], "mouseup")

\* function mouseup(e), e.which = which
mouseup(m, which) ==
    LET m1 == [m EXCEPT !.buttons = Put(@, which, FALSE)]
        m2 == IF ~isDragging(m1.buttons)
              THEN [m1 EXCEPT !.document = @ \ Moved, !.canvas = @ \cup Moved]
              ELSE m1
    IN  augment(m2, "mouseup")

\* function reset()
reset(m) == [m EXCEPT !.hasOld = FALSE]

\* the listener of the event type, called once
Listener(m, type, which) ==
    CASE type = "mousedown" -> mousedown(m, which)
      [] type = "mousemove" -> mousemove(m)
      [] OTHER -> mouseup(m, which)

\* the browser dispatches an event: to the listener on the canvas when the
\* pointer is over the canvas, then (the event bubbles) to the one on the document
Dispatch(m, type, which) ==
    LET m0 == [m EXCEPT !.calls = 0]
        m1 == IF m0.over /\ type \in m0.canvas THEN Listener(m0, type, which) ELSE m0
    IN  IF type \in m1.document THEN Listener(m1, type, which) ELSE m1

MouseButtons == {1, 2, 3}

\* the user presses a button
Press ==
    \E b \in MouseButtons \ mouse.phys :
        /\ mouse' = Dispatch([mouse EXCEPT !.phys = @ \cup {b},
                                           !.started = IF mouse.over THEN @ \cup {b} ELSE @],
                             "mousedown", b)
        /\ UNCHANGED <<stackVars, matrixVars, hitVars, pureVars, cameraVars, keyVars,
                       ctx, tex, mesh, indexer, frame>>

\* the user releases a button
Release ==
    \E b \in mouse.phys :
        /\ mouse' = Dispatch([mouse EXCEPT !.phys = @ \ {b}, !.started = @ \ {b}], "mouseup", b)
        /\ UNCHANGED <<stackVars, matrixVars, hitVars, pureVars, cameraVars, keyVars,
                       ctx, tex, mesh, indexer, frame>>

\* the user moves the pointer without crossing the border of the canvas
Move ==
    /\ mouse' = Dispatch(mouse, "mousemove", 0)
    /\ UNCHANGED <<stackVars, matrixVars, hitVars, pureVars, cameraVars, keyVars,
                   ctx, tex, mesh, indexer, frame>>

\* the pointer enters or leaves the canvas: mouseover or mouseout, then mousemove
Cross ==
    /\ mouse' = Dispatch(reset([mouse EXCEPT !.over = ~@]), "mousemove", 0)
    /\ UNCHANGED <<stackVars, matrixVars, hitVars, pureVars, cameraVars, keyVars,
                   ctx, tex, mesh, indexer, frame>>

\* the context as addEventListeners leaves it, the pointer anywhere, no button down
InitMouse ==
    /\ StackInit /\ api = "create" /\ hasFloat32Array
    /\ MatrixIdle /\ HitIdle /\ PureIdle /\ CameraIdle /\ KeysIdle
    /\ \E over \in BOOLEAN :
           mouse = [buttons |-> [b \in {} |-> TRUE], hasOld |-> FALSE,
                    canvas |-> {"mousedown", "mousemove", "mouseup", "mouseover", "mouseout"},
                    document |-> {},
                    last |-> [type |-> "none", dragging |-> FALSE], calls |-> 0,
                    phys |-> {}, over |-> over, started |-> {}]
    /\ ctx = NoValue /\ tex = NoValue /\ mesh = NoValue /\ indexer = NoValue /\ frame = NoValue

NextMouse ==
    \/ Press
    \/ Release
    \/ Move
    \/ Cross

SpecMouse == InitMouse /\ [][NextMouse]_vars

\* C21: the mousemove and mouseup listeners are on the document exactly
\* while at least one button that went down on the canvas is held, and on the
\* canvas otherwise, never on both and never on neither; the dragging property
\* of the event handed to the callback is true iff at least one such button
\* is held once the event has been applied; no event reaches a listener twice.
C21_ListenersFollowDrag ==
    mouse # NoValue =>
        /\ mouse.started # {} => (Moved \subseteq mouse.document /\ Moved \cap mouse.canvas = {})
        /\ mouse.started = {} => (Moved \subseteq mouse.canvas /\ Moved \cap mouse.document = {})
        /\ mouse.last.type # "none" => (mouse.last.dragging <=> mouse.started # {})
        /\ mouse.calls <= 1

\* C21 witness: two buttons went down on the canvas, the pointer left the
\* canvas, one button was released there and the move that follows is still
\* delivered as a drag.
C21_Witness ==
    /\ mouse # NoValue
    /\ ~mouse.over
    /\ mouse.started = {2}
    /\ 1 \in DOMAIN mouse.buttons /\ ~mouse.buttons[1]
    /\ mouse.last = [type |-> "mousemove", dragging |-> TRUE]
    /\ mouse.calls = 1

-----------------------------------------------------------------------------
(* Several contexts (main.js:259-283, 616-697 and Texture.fromURL): the    *)
(* module variable `gl`, the closures each context registered, and for     *)
(* every callback the library runs, the context it operated on.            *)

MaxContexts == 2

\* a callback of the context `owner` ran and issued its commands to `on`
Ran(kind, owner, on) == [kind |-> kind, owner |-> owner, on |-> on]

\* gl.makeCurrent = function() { gl = context; }
gl_makeCurrent(c, context) == [c EXCEPT !.gl = context]

\* function update() of gl.animate: gl = context; gl.onupdate(..); gl.ondraw(); post(update)
gl_animate_update(c, context) ==
    [c EXCEPT !.gl = context, !.ran = @ \cup {Ran("update", context, context)}]

\* gl.animate = function() { ... var context = gl; ... update(); }
gl_animate(c) == [gl_animate_update(c, c.gl) EXCEPT !.animating = @ \cup {c.gl}]

\* function resize() of gl.fullscreen: it reads the module variable `gl`
gl_fullscreen_resize(c, owner) == [c EXCEPT !.ran = @ \cup {Ran("resize", owner, c.gl)}]

\* gl.fullscreen = function(options) { ... on(window, 'resize', resize); resize(); }
gl_fullscreen(c) == [gl_fullscreen_resize(c, c.gl) EXCEPT !.fullscreen = Append(@, c.gl)]

\* Texture.fromURL: var context = gl; image.onload = function() { ... }
Texture_fromURL(c) == [c EXCEPT !.loading = @ \cup {c.gl}]

\* image.onload = function() { context.makeCurrent(); Texture.fromImage(image, options)... }
Texture_fromURL_onload(c, context) ==
    [gl_makeCurrent(c, context) EXCEPT !.ran = @ \cup {Ran("onload", context, context)},
                                        !.loading = @ \ {context}]

\* mousedown, mousemove and mouseup of addEventListeners: gl = context; gl.onmouse...(e)
addEventListeners_mouse(c, context) ==
    [c EXCEPT !.gl = context, !.ran = @ \cup {Ran("mouse", context, context)}]

\* the resize listeners of the window, called in the order of their registration
RECURSIVE ResizeAll(_, _)
ResizeAll(c, owners) ==
    IF owners = <<>> THEN c
    ELSE ResizeAll(gl_fullscreen_resize(c, Head(owners)), Tail(owners))

\* one step of the page on the contexts: the callbacks of the step start from none
Step(c) ==
    /\ ctx' = c
    /\ UNCHANGED <<stackVars, matrixVars, hitVars, pureVars, cameraVars, keyVars,
                   mouse, tex, mesh, indexer, frame>>

Fresh0 == [ctx EXCEPT !.ran = {}]

\* GL.create(): gl = canvas.getContext(...), the new context
Create ==
    /\ ctx.n < MaxContexts
    /\ Step([Fresh0 EXCEPT !.n = @ + 1, !.gl = ctx.n + 1])

\* the program calls makeCurrent, animate, fullscreen (once per context) or
\* Texture.fromURL on a context it holds
MakeCurrent == \E k \in 1..ctx.n : Step(gl_makeCurrent(Fresh0, k))

Animate == ctx.gl \notin ctx.animating /\ Step(gl_animate(Fresh0))

Fullscreen ==
    /\ \A i \in 1..Len(ctx.fullscreen) : ctx.fullscreen[i] # ctx.gl
    /\ Step(gl_fullscreen(Fresh0))

FromURL == ctx.gl \notin ctx.loading /\ Step(Texture_fromURL(Fresh0))

\* the browser delivers a mouse event on a canvas, an animation frame, a
\* resize of the window, the load of an image
MouseEvent == \E k \in 1..ctx.n : Step(addEventListeners_mouse(Fresh0, k))

AnimationFrame == \E k \in ctx.animating : Step(gl_animate_update(Fresh0, k))

WindowResize == ctx.fullscreen # <<>> /\ Step(ResizeAll(Fresh0, ctx.fullscreen))

ImageLoad == \E k \in ctx.loading : Step(Texture_fromURL_onload(Fresh0, k))

\* one context created by GL.create()
InitContexts ==
    /\ StackInit /\ api = "create" /\ hasFloat32Array
    /\ MatrixIdle /\ HitIdle /\ PureIdle /\ CameraIdle /\ KeysIdle
    /\ ctx = [n |-> 1, gl |-> 1, animating |-> {}, fullscreen |-> <<>>, loading |-> {},
              ran |-> {}]
    /\ mouse = NoValue /\ tex = NoValue /\ mesh = NoValue /\ indexer = NoValue
    /\ frame = NoValue

NextContexts ==
    \/ Create
    \/ MakeCurrent
    \/ Animate
    \/ Fullscreen
    \/ FromURL
    \/ MouseEvent
    \/ AnimationFrame
    \/ WindowResize
    \/ ImageLoad

SpecContexts == InitContexts /\ [][NextContexts]_vars

\* C22: every callback the library runs for a context (a mouse listener, the
\* update of animate, the resize of fullscreen, the onload of Texture.fromURL)
\* issues its commands to that context, whichever context is current when
\* the event fires.
C22_CallbacksUseTheirContext ==
    ctx # NoValue => \A r \in ctx.ran : r.on = r.owner

-----------------------------------------------------------------------------
(* Texture.prototype.drawTo (texture.js): the framebuffer and renderbuffer *)
(* shared by all textures, the bindings and viewport of the context, and   *)
(* the drawTo calls whose callback is running.                             *)

MaxNesting == 2

\* the textures of the page: this.id and this.width, this.height
Textures == {1, 2, 3}
TextureSize(t) ==
    IF t = 2 THEN [width |-> 4, height |-> 2] ELSE [width |-> 2, height |-> 2]
CanvasViewport == <<0, 0, 8, 6>>

\* drawTo up to callback(): v = gl.getParameter(gl.VIEWPORT), bind the
\* framebuffer and the renderbuffer, renderbufferStorage if the size
\* differs, attach this.id, check the status, gl.viewport(0, 0, width, height)
Texture_drawTo_begin(s, t, complete) ==
    LET differs == TextureSize(t).width # s.renderbuffer.width
                       \/ TextureSize(t).height # s.renderbuffer.height
        bound   == [s EXCEPT !.FRAMEBUFFER = "framebuffer",
                             !.RENDERBUFFER = "renderbuffer",
                             !.renderbuffer = TextureSize(t),
                             !.COLOR_ATTACHMENT0 = t,
                             !.stored = differs,
                             !.used = s.renderbuffer,
                             !.draw = NoValue]
    IN  IF complete
        THEN [bound EXCEPT !.VIEWPORT = <<0, 0, TextureSize(t).width, TextureSize(t).height>>,
                           !.calls = Append(@, [texture |-> t, v |-> s.VIEWPORT]),
                           !.finished = NoValue]
        ELSE \* throw new Error('Rendering to this texture is not supported ...')
             [bound EXCEPT !.finished = [texture |-> t, v |-> s.VIEWPORT, threw |-> TRUE]]

\* the call on top: the drawTo whose callback is running
Top(s) == s.calls[Len(s.calls)]
Pop(s) == SubSeq(s.calls, 1, Len(s.calls) - 1)

\* drawTo after callback() has returned: unbind both, restore the viewport
Texture_drawTo_end(s) ==
    [s EXCEPT !.FRAMEBUFFER = "null", !.RENDERBUFFER = "null",
              !.VIEWPORT = Top(s).v,
              !.calls = Pop(s), !.draw = NoValue,
              !.finished = [texture |-> Top(s).texture, v |-> Top(s).v, threw |-> FALSE]]

\* callback() throws: drawTo has no try, the statements after callback() do not run
Texture_drawTo_throw(s) ==
    [s EXCEPT !.calls = Pop(s), !.draw = NoValue,
              !.finished = [texture |-> Top(s).texture, v |-> Top(s).v, threw |-> TRUE]]

\* a draw call of the callback (gl.clear, mesh drawing): it renders to the
\* framebuffer bound now, through the viewport in force now
drawCall(s) ==
    [s EXCEPT !.finished = NoValue,
              !.draw = [texture |-> Top(s).texture, FRAMEBUFFER |-> s.FRAMEBUFFER,
                        COLOR_ATTACHMENT0 |-> s.COLOR_ATTACHMENT0,
                        VIEWPORT |-> s.VIEWPORT]]

TexStep(s) ==
    /\ tex' = s
    /\ UNCHANGED <<stackVars, matrixVars, hitVars, pureVars, cameraVars, keyVars,
                   mouse, ctx, mesh, indexer, frame>>

\* texture.drawTo(callback) called by the page or by a running callback
DrawTo ==
    /\ Len(tex.calls) < MaxNesting
    /\ \E t \in Textures, complete \in BOOLEAN : TexStep(Texture_drawTo_begin(tex, t, complete))

DrawCall == tex.calls # <<>> /\ TexStep(drawCall(tex))

CallbackReturns == tex.calls # <<>> /\ TexStep(Texture_drawTo_end(tex))

CallbackThrows == tex.calls # <<>> /\ TexStep(Texture_drawTo_throw(tex))

InitTexture ==
    /\ StackInit /\ api = "create" /\ hasFloat32Array
    /\ MatrixIdle /\ HitIdle /\ PureIdle /\ CameraIdle /\ KeysIdle
    /\ tex = [FRAMEBUFFER |-> "null", RENDERBUFFER |-> "null", VIEWPORT |-> CanvasViewport,
              renderbuffer |-> [width |-> Undefined, height |-> Undefined],
              COLOR_ATTACHMENT0 |-> 0,
              stored |-> FALSE, used |-> [width |-> Undefined, height |-> Undefined],
              calls |-> <<>>, draw |-> NoValue, finished |-> NoValue]
    /\ mouse = NoValue /\ ctx = NoValue /\ mesh = NoValue /\ indexer = NoValue
    /\ frame = NoValue

NextTexture ==
    \/ DrawTo
    \/ DrawCall
    \/ CallbackReturns
    \/ CallbackThrows

SpecTexture == InitTexture /\ [][NextTexture]_vars

\* C23: every draw call issued while the callback of texture.drawTo runs,
\* also one issued after a nested other.drawTo(...) has returned, renders to
\* the shared framebuffer with this texture as colour attachment, through
\* the viewport (0, 0, this.width, this.height).
C23_DrawCallsReachTheTexture ==
    (tex # NoValue /\ tex.draw # NoValue) =>
        /\ tex.draw.FRAMEBUFFER = "framebuffer"
        /\ tex.draw.COLOR_ATTACHMENT0 = tex.draw.texture
        /\ tex.draw.VIEWPORT = <<0, 0, TextureSize(tex.draw.texture).width,
                                 TextureSize(tex.draw.texture).height>>

\* C24: once drawTo has finished, by return or by exception, the viewport
\* is the rectangle in force before the call and neither the framebuffer
\* nor the renderbuffer is bound; renderbufferStorage was called exactly
\* when the size of the texture differs from the size used last.
C24_DrawToIsTemporary ==
    /\ (tex # NoValue /\ tex.finished # NoValue) =>
        /\ tex.VIEWPORT = tex.finished.v
        /\ tex.FRAMEBUFFER = "null"
        /\ tex.RENDERBUFFER = "null"
    /\ (tex # NoValue /\ tex.renderbuffer.width # Undefined) =>
        (tex.stored <=> tex.used # tex.renderbuffer)

-----------------------------------------------------------------------------
(* Indexer (mesh.js:9-26): unique, map and the indices add has returned.   *)

MaxAdds == 4

\* the elements of the lists given to add: a number, NaN or null
Num(n) == [num |-> n]
NotANumber == [nan |-> TRUE]

\* JSON.stringify of an element: NaN is written as null
JSON_element(e) == IF "num" \in DOMAIN e THEN ToString(e.num) ELSE "null"

RECURSIVE JSON_elements(_)
JSON_elements(list) ==
    IF list = <<>> THEN ""
    ELSE IF Len(list) = 1 THEN JSON_element(list[1])
    ELSE JSON_element(list[1]) \o "," \o JSON_elements(Tail(list))

\* JSON.stringify(obj) of a list
JSON_stringify(obj) == "[" \o JSON_elements(obj) \o "]"

\* new Indexer(): this.unique = []; this.indices = []; this.map = {}
Indexer ==
    [unique |-> <<>>, indices |-> <<>>, map |-> [key \in {} |-> 0]]

\* add that pushes every object, without looking into map
Indexer_add_pushAlways(this, obj) ==
    LET key == JSON_stringify(obj)
    IN  [this EXCEPT !.map = [k \in DOMAIN this.map \cup {key} |->
                                 IF k = key THEN Len(this.unique) ELSE this.map[k]],
                     !.unique = Append(@, obj)]

\* Indexer.prototype.add: the indexer afterwards (positions count from 0)
Indexer_add(this, obj) ==
    LET key == JSON_stringify(obj)
    IN  IF ~(key \in DOMAIN this.map)
        THEN [this EXCEPT !.map = [k \in DOMAIN this.map \cup {key} |->
                                      IF k = key THEN Len(this.unique) ELSE this.map[k]],
                          !.unique = Append(@, obj)]
        ELSE this

\* return this.map[key]
Indexer_add_result(this, obj) == Indexer_add(this, obj).map[JSON_stringify(obj)]

\* the edges [Math.min(a, b), Math.max(a, b)] computeWireframe adds for the
\* vertices 0..2, and lists that differ as values but not as JSON
EdgeOf(a, b) == <<Num(IF a < b THEN a ELSE b), Num(IF a < b THEN b ELSE a)>>
Objects ==
    {EdgeOf(a, b) : a, b \in 0..2} \cup {<<NotANumber>>, <<Null>>, <<Num(1)>>, <<>>}

\* indexer.add(obj); the state keeps every object added with the index returned
Add ==
    /\ Len(indexer.added) < MaxAdds
    /\ \E obj \in Objects :
        LET after == Indexer_add(indexer.this, obj)
        IN  indexer' = [this |-> after,
                        before |-> indexer.this,
                        added |-> Append(indexer.added,
                                         [obj |-> obj, index |-> after.map[JSON_stringify(obj)]])]
    /\ UNCHANGED <<stackVars, matrixVars, hitVars, pureVars, cameraVars, keyVars,
                   mouse, ctx, tex, mesh, frame>>

InitIndexer ==
    /\ StackInit /\ api = "create" /\ hasFloat32Array
    /\ MatrixIdle /\ HitIdle /\ PureIdle /\ CameraIdle /\ KeysIdle
    /\ indexer = [this |-> Indexer, before |-> Indexer, added |-> <<>>]
    /\ mouse = NoValue /\ ctx = NoValue /\ tex = NoValue /\ mesh = NoValue
    /\ frame = NoValue

NextIndexer == Add

SpecIndexer == InitIndexer /\ [][NextIndexer]_vars

\* the objects of a sequence of additions that are the first with their JSON text
RECURSIVE FirstInsertions(_)
FirstInsertions(added) ==
    IF added = <<>> THEN <<>>
    ELSE LET n     == Len(added)
             front == SubSeq(added, 1, n - 1)
             rest  == FirstInsertions(front)
         IN  IF \E i \in 1..(n - 1) : JSON_stringify(added[i].obj) = JSON_stringify(added[n].obj)
             THEN rest
             ELSE Append(rest, added[n].obj)

\* C26: after any sequence of add calls, unique holds each distinct object
\* (distinct as JSON text) once, in the order of first insertion; add returns
\* the position of an equal object in unique; adding an object equal to an
\* earlier one returns the earlier index and leaves unique as it was; and an
\* index handed out keeps denoting the same object.
C26_UniqueInFirstInsertionOrder ==
    indexer # NoValue =>
        LET unique == indexer.this.unique
            added  == indexer.added
        IN  /\ unique = FirstInsertions(added)
            /\ \A i, j \in 1..Len(unique) :
                   JSON_stringify(unique[i]) = JSON_stringify(unique[j]) => i = j
            /\ \A i \in 1..Len(added) :
                   /\ added[i].index \in 0..(Len(unique) - 1)
                   /\ JSON_stringify(unique[added[i].index + 1]) = JSON_stringify(added[i].obj)
                   /\ \A j \in 1..(i - 1) :
                          JSON_stringify(added[j].obj) = JSON_stringify(added[i].obj)
                              => added[i].index = added[j].index
            /\ (added # <<>> /\ \E j \in 1..(Len(added) - 1) :
                    JSON_stringify(added[j].obj) = JSON_stringify(added[Len(added)].obj))
                   => unique = indexer.before.unique
            /\ \A i \in 1..Len(indexer.before.unique) :
                   i <= Len(unique) /\ unique[i] = indexer.before.unique[i]

\* [NaN] was added, then [null] (the same JSON text) got index 0 and did not
\* grow unique, then an edge and the same edge again
C26_Witness ==
    /\ indexer # NoValue
    /\ Len(indexer.added) = 4
    /\ indexer.added[1] = [obj |-> <<NotANumber>>, index |-> 0]
    /\ indexer.added[2] = [obj |-> <<Null>>, index |-> 0]
    /\ indexer.added[3] = [obj |-> EdgeOf(2, 0), index |-> 1]
    /\ indexer.added[4] = [obj |-> EdgeOf(0, 2), index |-> 1]
    /\ indexer.this.unique = <<(<<NotANumber>>), EdgeOf(0, 2)>>

-----------------------------------------------------------------------------
(* Buffer, Mesh (mesh.js:38-130), immediate mode (main.js:404-461) and the *)
(* vertex count of Shader.drawBuffers.                                     *)

MaxVertices == 2

\* new Buffer(target, type), with the name addVertexBuffer gives it
Buffer(target, name) == [buffer |-> Null, target |-> target, name |-> name, data |-> <<>>]

\* Array.prototype.concat.apply(data, this.data.slice(..)): the inner lists in a row
RECURSIVE Flatten(_)
Flatten(data) == IF data = <<>> THEN <<>> ELSE Head(data) \o Flatten(Tail(data))

\* Buffer.prototype.compile; the lists of the model have one inner length,
\* so data.length / this.data.length is a whole number
Buffer_compile(this) ==
    LET data == Flatten(this.data)
    IN  IF Len(data) # 0
        THEN [this EXCEPT !.buffer = [length |-> Len(data),
                                      spacing |-> Len(data) \div Len(this.data),
                                      bufferData |-> data]]
        ELSE this

\* obj[name] = value
Set(obj, name, value) ==
    [k \in DOMAIN obj \cup {name} |-> IF k = name THEN value ELSE obj[k]]

\* options.name is true (a missing option is undefined)
Option(options, name) == name \in DOMAIN options /\ options[name]

\* Mesh.prototype.addVertexBuffer and addIndexBuffer; this[name] is lists[name]
Mesh_addVertexBuffer(this, name, attribute) ==
    [this EXCEPT !.vertexBuffers = Set(@, attribute, Buffer("ARRAY_BUFFER", name)),
                 !.lists = Set(@, name, <<>>)]

Mesh_addIndexBuffer(this, name) ==
    [this EXCEPT !.indexBuffers = Set(@, name, Buffer("ELEMENT_ARRAY_BUFFER", name)),
                 !.lists = Set(@, name, <<>>)]

NoProperties == [k \in {} |-> 0]

\* new Mesh(options), statement by statement
Mesh(options) ==
    LET m0 == [vertexBuffers |-> NoProperties, indexBuffers |-> NoProperties,
               lists |-> NoProperties]
        m1 == Mesh_addVertexBuffer(m0, "vertices", "gl_Vertex")
        m2 == IF Option(options, "coords")
              THEN Mesh_addVertexBuffer(m1, "coords", "gl_TexCoord") ELSE m1
        m3 == IF Option(options, "normals")
              THEN Mesh_addVertexBuffer(m2, "normals", "gl_Normal") ELSE m2
        m4 == IF Option(options, "color")
              THEN Mesh_addVertexBuffer(m3, "colors", "gl_Color") ELSE m3
        m5 == IF ~("triangles" \in DOMAIN options) \/ options["triangles"]
              THEN Mesh_addIndexBuffer(m4, "triangles") ELSE m4
    IN  IF Option(options, "lines") THEN Mesh_addIndexBuffer(m5, "lines") ELSE m5

\* Mesh.prototype.compile: buffer.data = this[buffer.name]; buffer.compile()
Mesh_compile(this) ==
    [this EXCEPT
        !.vertexBuffers = [a \in DOMAIN this.vertexBuffers |->
            Buffer_compile([this.vertexBuffers[a] EXCEPT
                               !.data = this.lists[this.vertexBuffers[a].name]])],
        !.indexBuffers = [n \in DOMAIN this.indexBuffers |->
            Buffer_compile([this.indexBuffers[n] EXCEPT !.data = this.lists[n]])]]

\* the attributes in the order the constructor adds them, which is the
\* order of `for (var attribute in vertexBuffers)`
Attributes == <<"gl_Vertex", "gl_TexCoord", "gl_Normal", "gl_Color">>

\* Shader.drawBuffers without index buffer: the number of vertices handed
\* to gl.drawArrays, 0 when nothing is drawn; every attribute has a location
RECURSIVE drawBuffers_length(_, _, _)
drawBuffers_length(vertexBuffers, i, length) ==
    IF i > Len(Attributes) THEN length
    ELSE IF Attributes[i] \notin DOMAIN vertexBuffers
              \/ vertexBuffers[Attributes[i]].buffer = Null
         THEN drawBuffers_length(vertexBuffers, i + 1, length)
         ELSE drawBuffers_length(vertexBuffers, i + 1,
                  vertexBuffers[Attributes[i]].buffer.length
                      \div vertexBuffers[Attributes[i]].buffer.spacing)

\* the options a page passes, and the ones addImmediateMode passes
ImmediateOptions == [coords |-> TRUE, colors |-> TRUE, triangles |-> FALSE]
MeshOptions ==
    {[lines |-> FALSE], ImmediateOptions,
     [coords |-> TRUE], [normals |-> TRUE], [colors |-> TRUE], [lines |-> TRUE],
     [coords |-> FALSE, normals |-> TRUE, colors |-> TRUE, triangles |-> TRUE]}

MeshStep(s) ==
    /\ mesh' = s
    /\ UNCHANGED <<stackVars, matrixVars, hitVars, pureVars, cameraVars, keyVars,
                   mouse, ctx, tex, indexer, frame>>

\* var mesh = new Mesh(options) in the page
NewMesh ==
    /\ \E options \in MeshOptions :
           mesh' = [mesh EXCEPT !.options = options, !.made = Mesh(options)]
    /\ UNCHANGED <<stackVars, matrixVars, hitVars, pureVars, cameraVars, keyVars,
                   mouse, ctx, tex, indexer, frame>>

\* gl.begin(mode)
gl_begin ==
    /\ mesh.immediateMode.mode = -1
    /\ \E mode \in {0, 4} :
        MeshStep([mesh EXCEPT
            !.immediateMode.mode = mode,
            !.immediateMode.mesh.lists =
                Set(Set(Set(@, "colors", <<>>), "coords", <<>>), "vertices", <<>>),
            !.ended = FALSE])

\* gl.vertex(x, y, z)
gl_vertex ==
    /\ mesh.immediateMode.mode # -1
    /\ Len(mesh.immediateMode.mesh.lists["vertices"]) < MaxVertices
    /\ \E x \in {0, 1} :
        MeshStep([mesh EXCEPT
            !.immediateMode.mesh.lists =
                [@ EXCEPT !["colors"] = Append(@, mesh.immediateMode.color),
                          !["coords"] = Append(@, mesh.immediateMode.coord),
                          !["vertices"] = Append(@, <<x, 0, 0>>)],
            !.ended = FALSE])

\* gl.end(): compile the mesh, draw it, mode = -1
gl_end ==
    /\ mesh.immediateMode.mode # -1
    /\ LET compiled == Mesh_compile(mesh.immediateMode.mesh)
       IN  MeshStep([mesh EXCEPT
               !.immediateMode.mesh = compiled,
               !.immediateMode.mode = -1,
               !.drawArrays = drawBuffers_length(compiled.vertexBuffers, 1, 0),
               !.ended = TRUE])

\* GL.create() has run addImmediateMode; the page has made no mesh yet
InitMesh ==
    /\ StackInit /\ api = "create" /\ hasFloat32Array
    /\ MatrixIdle /\ HitIdle /\ PureIdle /\ CameraIdle /\ KeysIdle
    /\ mesh = [immediateMode |-> [mesh |-> Mesh(ImmediateOptions), mode |-> -1,
                                  coord |-> <<0, 0, 0, 0>>, color |-> <<1, 1, 1, 1>>],
               options |-> [lines |-> FALSE], made |-> Mesh([lines |-> FALSE]),
               drawArrays |-> 0, ended |-> FALSE]
    /\ mouse = NoValue /\ ctx = NoValue /\ tex = NoValue /\ indexer = NoValue
    /\ frame = NoValue

NextMesh ==
    \/ NewMesh
    \/ gl_begin
    \/ gl_vertex
    \/ gl_end

SpecMesh == InitMesh /\ [][NextMesh]_vars

\* C25: new Mesh(options) always has the vertices buffer, and has the
\* coords, normals and colors buffers (gl_TexCoord, gl_Normal, gl_Color)
\* exactly when the option of that name is true; the mesh of immediate mode
\* has a gl_Color buffer that compile() uploads from mesh.colors, and no
\* triangles index buffer.
C25_BuffersFollowOptions ==
    mesh # NoValue =>
        LET created == mesh.made.vertexBuffers
            imm  == mesh.immediateMode.mesh
        IN  /\ "gl_Vertex" \in DOMAIN created /\ created["gl_Vertex"].name = "vertices"
            /\ "gl_TexCoord" \in DOMAIN created <=> Option(mesh.options, "coords")
            /\ "gl_Normal" \in DOMAIN created <=> Option(mesh.options, "normals")
            /\ "gl_Color" \in DOMAIN created <=> Option(mesh.options, "colors")
            /\ "gl_Color" \in DOMAIN imm.vertexBuffers
            /\ "triangles" \notin DOMAIN imm.indexBuffers
            /\ (mesh.ended /\ imm.lists["colors"] # <<>>) =>
                   /\ "gl_Color" \in DOMAIN imm.vertexBuffers
                   /\ imm.vertexBuffers["gl_Color"].buffer # Null
                   /\ imm.vertexBuffers["gl_Color"].buffer.bufferData
                          = Flatten(imm.lists["colors"])

\* the buffer on the GPU holds what data holds
Reflects(b) ==
    IF b.data = <<>>
    THEN b.buffer # Null => b.buffer.length = 0
    ELSE /\ b.buffer # Null
         /\ b.buffer.length = Len(Flatten(b.data))
         /\ b.buffer.spacing = Len(b.data[1])

\* C27: after every compile() the GPU buffer has the length and the spacing
\* of the current data, also when data is empty after an earlier upload: a
\* gl.begin(); gl.end() without vertices draws nothing.
C27_CompiledBufferReflectsData ==
    (mesh # NoValue /\ mesh.ended) =>
        LET imm == mesh.immediateMode.mesh
        IN  /\ \A a \in DOMAIN imm.vertexBuffers : Reflects(imm.vertexBuffers[a])
            /\ \A n \in DOMAIN imm.indexBuffers : Reflects(imm.indexBuffers[n])
            /\ mesh.drawArrays = Len(imm.lists["vertices"])

-----------------------------------------------------------------------------
(* The animation loop of window.onload: function frame() of main.js:132-146 *)
(* and its earlier form (part_001:79-85), the callback it has scheduled,    *)
(* and the calls of window.update and window.draw it made.                  *)

MaxCounted == 4

\* what setup(), update(), draw() or an event handler of the page does to gl.autoDraw
Assign(autoDraw, sets) == IF sets = "keep" THEN autoDraw ELSE sets = "true"
Assignments == {"keep", "true", "false"}

Counted(n) == IF n < MaxCounted THEN n + 1 ELSE MaxCounted

\* function frame() of main.js: update and draw only if gl.autoDraw, then
\* post(frame); otherwise setTimeout(frame, 100)
frame_main(f, updateSets, drawSets) ==
    IF f.autoDraw
    THEN [f EXCEPT !.autoDraw = Assign(Assign(@, updateSets), drawSets),
                   !.calls = <<"update", "draw">>,
                   !.was = TRUE,
                   !.drawn = Counted(@),
                   !.scheduled = "post"]
    ELSE [f EXCEPT !.calls = <<>>, !.was = FALSE, !.scheduled = "setTimeout"]

\* function frame() of part_001: update, draw, then post(frame) if gl.autoDraw
frame_part_001(f, updateSets, drawSets) ==
    LET autoDraw == Assign(Assign(f.autoDraw, updateSets), drawSets)
    IN  [f EXCEPT !.autoDraw = autoDraw,
                  !.calls = <<"update", "draw">>,
                  !.was = f.autoDraw,
                  !.drawn = Counted(@),
                  !.scheduled = IF autoDraw THEN "post" ELSE "none"]

frame_(f, updateSets, drawSets) ==
    IF f.loop = "main.js" THEN frame_main(f, updateSets, drawSets)
    ELSE frame_part_001(f, updateSets, drawSets)

FrameStep(f) ==
    /\ frame' = f
    /\ UNCHANGED <<stackVars, matrixVars, hitVars, pureVars, cameraVars, keyVars,
                   mouse, ctx, tex, mesh, indexer>>

\* the end of window.onload: gl.autoDraw = true; if (window.setup) window.setup(); frame()
Onload ==
    /\ frame.phase = "loading"
    /\ \E setupSets \in {"keep", "false"}, updateSets, drawSets \in Assignments :
        LET f == frame_([frame EXCEPT !.autoDraw = Assign(TRUE, setupSets),
                                      !.phase = "running"],
                        updateSets, drawSets)
        IN  FrameStep([f EXCEPT !.initial = f.calls, !.frames = 1])

\* the browser runs the callback given to post or to setTimeout
Frame ==
    /\ frame.phase = "running"
    /\ frame.scheduled # "none"
    /\ \E updateSets, drawSets \in Assignments :
        FrameStep([frame_(frame, updateSets, drawSets) EXCEPT !.frames = Counted(@)])

\* an event handler of the page assigns gl.autoDraw between two frames
SetAutoDraw ==
    /\ frame.phase = "running"
    /\ \E b \in BOOLEAN :
        FrameStep([frame EXCEPT !.autoDraw = b, !.calls = <<>>, !.was = FALSE])

InitFrame ==
    /\ StackInit /\ api = "onload" /\ ~hasFloat32Array
    /\ MatrixIdle /\ HitIdle /\ PureIdle /\ CameraIdle /\ KeysIdle
    /\ \E loop \in {"main.js", "part_001"} :
        frame = [loop |-> loop, phase |-> "loading", autoDraw |-> FALSE,
                 scheduled |-> "none", calls |-> <<>>, was |-> FALSE,
                 initial |-> <<>>, frames |-> 0, drawn |-> 0]
    /\ mouse = NoValue /\ ctx = NoValue /\ tex = NoValue /\ mesh = NoValue
    /\ indexer = NoValue

NextFrame ==
    \/ Onload
    \/ Frame
    \/ SetAutoDraw

SpecFrame == InitFrame /\ [][NextFrame]_vars

\* a callback given to requestAnimationFrame or setTimeout is run by the
\* browser after a finite time
SpecFrameFair == SpecFrame /\ WF_vars(Frame) /\ WF_vars(Onload)

\* the part of C28 about every state of the running loop
FrameLoopSafe ==
    (frame # NoValue /\ frame.phase = "running") =>
        /\ frame.initial = <<"update", "draw">>
        /\ frame.calls \in {<<>>, <<"update", "draw">>}
        /\ (frame.frames > 1 /\ frame.calls # <<>>) => frame.was
        /\ frame.scheduled # "none"

\* C28: the initial frame is drawn right after setup(), update() then
\* draw(), also when setup() sets gl.autoDraw = false; later update() and
\* draw() are called only in frames where gl.autoDraw is true, update()
\* before draw(); the loop keeps a callback scheduled while autoDraw is
\* false; and once autoDraw is true again a frame is eventually drawn.
C28_FrameLoop ==
    /\ []FrameLoopSafe
    /\ (frame # NoValue /\ frame.phase = "running" /\ frame.autoDraw /\ frame.calls = <<>>)
           ~> (frame.calls = <<"update", "draw">> \/ ~frame.autoDraw)

-----------------------------------------------------------------------------
(* The matrix stack once more: what the two matrices hold after any calls. *)

\* gl[reg].m is an array of 16 entries
Has16Entries(reg) ==
    /\ gl[reg] # Undefined
    /\ gl[reg] \in DOMAIN heap
    /\ DOMAIN heap[gl[reg]] = 0..15

\* C29: after any sequence of matrixMode, loadIdentity, loadMatrix,
\* multMatrix, pushMatrix and popMatrix calls, also a popMatrix with nothing
\* pushed, gl.modelviewMatrix and gl.projectionMatrix each hold 16 numbers,
\* and the depth of each stack is the number of matrices pushed and not yet
\* popped in that mode, never less than none.
C29_MatricesStayWellFormed ==
    \A reg \in Registers :
        /\ Has16Entries(reg)
        /\ Len(stacks[StackOf(reg)]) = Len(saved[reg])

=============================================================================
